---- MODULE Spec2Model ----
(***************************************************************************)
(* Lim-Code: the streaming session and message-reconciliation core.        *)
(*                                                                         *)
(*   SpecAbort  StreamAbortManager (src/unnamed/part_001)                   *)
(*   SpecChat   the chat store: message actions, conversation actions and  *)
(*              the stream handler, run against a backend environment      *)
(***************************************************************************)
EXTENDS Integers, Sequences, FiniteSets, TLC

\* ------------------------------------------------------------------ bounds
\* Controllers one registry ever allocates (new AbortController()).
MaxCtrl == 3

\* Turn requests (chatStream, retryStream, editAndRetryStream) one run dispatches.
MaxTurns == 2

\* Store operations suspended at an await at the same time.
MaxProcs == 2

\* removeBackground calls one engine serves at the same time.
MaxCalls == 3

\* Non-terminal stream events one turn emits.
MaxEmit == 1

\* Messages of a persisted history the backend returns.
MaxHist == 2

\* Largest message index a checkpoint record of the backend carries.
MaxCkpt == 1

NULL == "null"

\* streamingMessageId = null; generateId() never yields it.
NoId == 0

\* Message content: the text the user typed, the text of an edit, and for an
\* assistant message the fragments appended to it, each named by the turn
\* that produced it (1..MaxTurns).
UserText == 0

EditedText == -1

\* Conversation ids used as registry keys.
Keys == {"c1", "c2"}

\* firstMessage.slice(0, 30): the length a conversation title is cut to.
TitleLen == 30

\* Message texts, as their characters: a blank one, a short one, and one of
\* more than TitleLen characters.
Blank == <<" ">>

Hello == <<"H", "e", "l", "l", "o">>

LongText == [i \in 1..(TitleLen + 1) |-> "x"]

Texts == {Blank, Hello, LongText}

\* !messageText.trim(): nothing but white space.
IsBlank(text) == \A i \in 1..Len(text) : text[i] = " "

\* firstMessage.slice(0, 30) + (firstMessage.length > 30 ? '...' : '')
Title(firstMessage) ==
    SubSeq(firstMessage, 1,
           IF Len(firstMessage) < TitleLen THEN Len(firstMessage) ELSE TitleLen)
    \o (IF Len(firstMessage) > TitleLen THEN <<".", ".", ".">> ELSE <<>>)

VARIABLES
    \* ---- StreamAbortManager
    controllers,   \* the Map, as its insertion-ordered entries [key, ctrl]
    aborted,       \* controllers whose signal is aborted
    nextCtrl,      \* the next controller `new AbortController()` yields
    replaced,      \* history: controllers dropped from the Map by create
    lastCall,      \* history: the last call, its result and the state before it
    prevCall       \* history: the call before the last one

VARIABLES
    \* ---- the remove_background tool handler
    tool,          \* one invocation of the handler and its subtasks
    engine         \* the cached TransformersEngine and the calls it serves

VARIABLES
    \* ---- the chat store (frontend) and what it talks to
    state,         \* ChatStoreState: the store's refs, one field each
    procs,         \* the async operations in flight, each at one of its awaits
    turns,         \* backend: the turns it was asked to run
    nextTurn,      \* the number the next turn request carries
    backendConvs,  \* backend: the persisted conversations
    observedCancelled,  \* history: turns whose `cancelled` event was handled
    last           \* history: the step just taken

\* What the chat store never touches.
abortVars == <<controllers, aborted, nextCtrl, replaced, lastCall, prevCall,
               tool, engine>>

chatVars == <<state, procs, turns, nextTurn, backendConvs, observedCancelled, last>>

vars == <<controllers, aborted, nextCtrl, replaced, lastCall, prevCall, tool,
          engine, state, procs, turns, nextTurn, backendConvs, observedCancelled, last>>

\* ------------------------------------------------- Map<string, AbortController>
MapHas(m, k) == \E i \in 1..Len(m) : m[i].key = k

MapIndex(m, k) == CHOOSE i \in 1..Len(m) : m[i].key = k

\* Map.prototype.get: the value stored under k, or undefined.
MapGet(m, k) == IF MapHas(m, k) THEN m[MapIndex(m, k)].ctrl ELSE NULL

\* Map.prototype.set: an existing key keeps its place and takes the new value,
\* a new key is appended.
MapSet(m, k, c) ==
    IF MapHas(m, k)
    THEN [m EXCEPT ![MapIndex(m, k)] = [key |-> k, ctrl |-> c]]
    ELSE Append(m, [key |-> k, ctrl |-> c])

\* Map.prototype.delete
MapDelete(m, k) == SelectSeq(m, LAMBDA e : e.key # k)

MapKeys(m) == {m[i].key : i \in 1..Len(m)}

MapCtrls(m) == {m[i].ctrl : i \in 1..Len(m)}

\* get size(): controllers.size
size == Len(controllers)

\* A call made on the registry from inside cancelAll, by the abort listener
\* of the at-th controller its loop aborts.
NoHook == [at |-> 0, op |-> "none", key |-> NULL]

NoCall == [op |-> "none", key |-> NULL, ret |-> NULL, pre |-> <<>>,
           preAborted |-> {}, view |-> FALSE, failing |-> {},
           attempts |-> <<>>, posted |-> <<>>, threw |-> FALSE,
           hook |-> NoHook]

Call(op, k, ret) == [NoCall EXCEPT !.op = op, !.key = k, !.ret = ret,
                                   !.pre = controllers, !.preAborted = aborted]

\* ---------------------------------------------------------------- operations
\* A create that also aborts the controller it replaces.
CreateAbortingReplaced(k) ==
    /\ UNCHANGED <<chatVars, tool, engine>>
    /\ nextCtrl <= MaxCtrl
    /\ controllers' = MapSet(controllers, k, nextCtrl)
    /\ aborted' = IF MapHas(controllers, k)
                  THEN aborted \cup {MapGet(controllers, k)} ELSE aborted
    /\ nextCtrl' = nextCtrl + 1
    /\ replaced' = IF MapHas(controllers, k)
                   THEN replaced \cup {[key |-> k, ctrl |-> MapGet(controllers, k)]}
                   ELSE replaced
    /\ prevCall' = lastCall
    /\ lastCall' = Call("create", k, nextCtrl)

\* create(conversationId)
Create(k) ==
    /\ UNCHANGED <<chatVars, tool, engine>>
    /\ nextCtrl <= MaxCtrl
    /\ controllers' = MapSet(controllers, k, nextCtrl)
    /\ nextCtrl' = nextCtrl + 1
    /\ replaced' = IF MapHas(controllers, k)
                   THEN replaced \cup {[key |-> k, ctrl |-> MapGet(controllers, k)]}
                   ELSE replaced
    /\ prevCall' = lastCall
    /\ lastCall' = Call("create", k, nextCtrl)
    /\ UNCHANGED aborted

\* get(conversationId)
Get(k) ==
    /\ UNCHANGED <<chatVars, tool, engine>>
    /\ prevCall' = lastCall
    /\ lastCall' = Call("get", k, MapGet(controllers, k))
    /\ UNCHANGED <<controllers, aborted, nextCtrl, replaced>>

\* A cancel that aborts the controller and leaves its entry in the Map.
CancelKeepingEntry(k) ==
    /\ UNCHANGED <<chatVars, tool, engine>>
    /\ IF MapHas(controllers, k)
       THEN /\ aborted' = aborted \cup {MapGet(controllers, k)}
            /\ lastCall' = Call("cancel", k, TRUE)
       ELSE /\ aborted' = aborted
            /\ lastCall' = Call("cancel", k, FALSE)
    /\ prevCall' = lastCall
    /\ UNCHANGED <<controllers, nextCtrl, replaced>>

\* cancel(conversationId)
Cancel(k) ==
    /\ UNCHANGED <<chatVars, tool, engine>>
    /\ IF MapHas(controllers, k)
       THEN /\ aborted' = aborted \cup {MapGet(controllers, k)}
            /\ controllers' = MapDelete(controllers, k)
            /\ lastCall' = Call("cancel", k, TRUE)
       ELSE /\ UNCHANGED <<aborted, controllers>>
            /\ lastCall' = Call("cancel", k, FALSE)
    /\ prevCall' = lastCall
    /\ UNCHANGED <<nextCtrl, replaced>>

\* A delete that signals the controller it removes, as cancel does.
DeleteAborting(k) ==
    /\ UNCHANGED <<chatVars, tool, engine>>
    /\ controllers' = MapDelete(controllers, k)
    /\ aborted' = IF MapHas(controllers, k)
                  THEN aborted \cup {MapGet(controllers, k)} ELSE aborted
    /\ prevCall' = lastCall
    /\ lastCall' = Call("delete", k, NULL)
    /\ UNCHANGED <<nextCtrl, replaced>>

\* delete(conversationId)
Delete(k) ==
    /\ UNCHANGED <<chatVars, tool, engine>>
    /\ controllers' = MapDelete(controllers, k)
    /\ prevCall' = lastCall
    /\ lastCall' = Call("delete", k, NULL)
    /\ UNCHANGED <<aborted, nextCtrl, replaced>>

\* A notification without the try/catch around it: a failing send escapes.
PostCancelledUncaught(view, failing, k) ==
    IF ~view THEN "noview"
    ELSE IF k \in failing THEN "uncaught"
    ELSE "posted"

\* try { view?.webview.postMessage({type: 'streamChunk', data: {conversationId,
\* type: 'cancelled'}}) } catch {}: what one pass through the statement does.
\* `failing` are the keys for which postMessage throws.
PostCancelled(view, failing, k) ==
    IF ~view THEN "noview"
    ELSE IF k \in failing THEN "caught"
    ELSE "posted"

\* for (const [conversationId, controller] of this.controllers) {...}: the loop
\* from entry i on; acc carries the signals aborted, the keys whose
\* notification was attempted, the notifications sent, and whether an
\* exception left the loop.
RECURSIVE CancelAllLoop(_, _, _, _, _)
CancelAllLoop(m, i, view, failing, acc) ==
    IF i > Len(m) THEN acc
    ELSE LET r == PostCancelled(view, failing, m[i].key)
             a == [acc EXCEPT !.aborted = @ \cup {m[i].ctrl},
                              !.attempts = Append(@, m[i].key),
                              !.posted = IF r = "posted"
                                         THEN Append(@, m[i].key) ELSE @,
                              !.threw = (r = "uncaught")]
         IN IF a.threw THEN a ELSE CancelAllLoop(m, i + 1, view, failing, a)

\* cancelAll(view?)
CancelAll(view, failing) ==
    LET r == CancelAllLoop(controllers, 1, view, failing,
                 [aborted |-> aborted, attempts |-> <<>>, posted |-> <<>>,
                  threw |-> FALSE])
    IN /\ aborted' = r.aborted
       /\ controllers' = IF r.threw THEN controllers ELSE <<>>
       /\ prevCall' = lastCall
       /\ lastCall' = [Call("cancelAll", NULL, NULL) EXCEPT
                          !.view = view, !.failing = failing,
                          !.attempts = r.attempts, !.posted = r.posted,
                          !.threw = r.threw]
       /\ UNCHANGED <<nextCtrl, replaced>>
       /\ UNCHANGED <<chatVars, tool, engine>>

\* ====================================================== remove_background tool
\* maxBatchTasks: the tasks one call may carry (5 unless configured).
MaxBatch == 2

\* The terminal statuses unregisterTask is given.
TaskStatuses == {"completed", "cancelled", "error"}

\* An entry of the images array: a task with both paths, a task that lacks
\* image_path or output_path, and an entry that is no object at all.
TaskKinds == {"valid", "nopath", "null"}

RECURSIVE SeqsUpTo(_, _)
SeqsUpTo(S, n) ==
    IF n = 0 THEN {<<>>}
    ELSE LET shorter == SeqsUpTo(S, n - 1)
         IN shorter \cup {Append(q, x) : q \in {r \in shorter : Len(r) = n - 1},
                                          x \in S}

\* One invocation of the handler: where it is, the calls it made to
\* TaskManager, the two abort signals, its subtasks and what it returned.
NoTool == [pc |-> "idle", tasks |-> <<>>, registered |-> 0,
           unregistered |-> <<>>, contextAborted |-> FALSE,
           listening |-> FALSE, aborted |-> FALSE, sub |-> <<>>,
           ret |-> NULL]

\* TaskManager.registerTask(toolId, type, abortController, data)
RegisterTask(t) == [t EXCEPT !.registered = @ + 1]

\* TaskManager.unregisterTask(toolId, status, data)
UnregisterTask(t, status) == [t EXCEPT !.unregistered = Append(@, status)]

\* What a subtask is at: pc is the await it is suspended in, res the result it
\* returned, and byAbort tells that it stopped because the abort signal was
\* seen aborted (by executeRemoveTask or by the engine).
SubTask(pc, res, byAbort) == [pc |-> pc, res |-> res, byAbort |-> byAbort]

\* catch (error) of executeRemoveTask: cancelled when the signal is aborted or
\* the error is an abort error (by name or by message).
TaskCaught(isAborted, abortError) ==
    SubTask("done", IF isAborted \/ abortError THEN "cancelled" ELSE "failed",
            isAborted \/ abortError)

\* executeRemoveTask up to its first await.
ExecuteRemoveTask(kind, isAborted) ==
    IF kind = "null" THEN SubTask("done", "rejected", FALSE)
    ELSE IF kind = "nopath" THEN SubTask("done", "failed", FALSE)
    ELSE IF isAborted THEN SubTask("done", "cancelled", TRUE)
    ELSE SubTask("read", NULL, FALSE)

\* A catch block of the handler that returns without telling TaskManager.
HandlerCatchSilent(t, abortError) ==
    [t EXCEPT !.pc = "returned",
              !.ret = IF t.aborted \/ abortError THEN "cancelled" ELSE "error"]

\* catch (error) of the handler
HandlerCatch(t, abortError) ==
    LET isCancelled == t.aborted \/ abortError
    IN [UnregisterTask(t, IF isCancelled THEN "cancelled" ELSE "error")
           EXCEPT !.pc = "returned",
                  !.ret = IF isCancelled THEN "cancelled" ELSE "error"]

ResultCount(sub, res) == Cardinality({i \in 1..Len(sub) : sub[i].res = res})

\* The handler after Promise.all resolved: unregisterTask and the report.
HandlerReport(t) ==
    LET n == Len(t.sub)
        success == ResultCount(t.sub, "success")
        failed == ResultCount(t.sub, "failed")
        cancelled == ResultCount(t.sub, "cancelled")
    IN [UnregisterTask(t, "completed")
           EXCEPT !.pc = "returned",
                  !.ret = IF cancelled = n THEN "cancelled"
                          ELSE IF failed = 0 /\ cancelled = 0 THEN "success"
                          ELSE IF success = 0 THEN "failed"
                          ELSE "partial"]

toolIdle == <<controllers, aborted, nextCtrl, replaced, lastCall, prevCall,
              engine, chatVars>>

\* handler(args, context) up to its first await
Handler(tasks, contextAborted) ==
    /\ tool.pc = "idle"
    /\ LET t == [tool EXCEPT !.tasks = tasks, !.listening = TRUE,
                             !.contextAborted = contextAborted]
       IN tool' = IF Len(tasks) = 0 \/ Len(tasks) > MaxBatch
                  THEN [t EXCEPT !.pc = "returned", !.ret = "rejected"]
                  ELSE [RegisterTask(t) EXCEPT !.pc = "engine"]
    /\ UNCHANGED toolIdle

\* config.engine || await getDefaultEngineType(), createRemovalEngine, and the
\* tasks.map that starts every subtask.
EngineResolved(ok, abortError) ==
    /\ tool.pc = "engine"
    /\ ok => ~abortError
    /\ tool' = IF ok
               THEN [tool EXCEPT !.pc = "all",
                        !.sub = [i \in 1..Len(tool.tasks) |->
                                   ExecuteRemoveTask(tool.tasks[i], tool.aborted)]]
               ELSE HandlerCatch(tool, abortError)
    /\ UNCHANGED toolIdle

\* await readImageFile(image_path)
ReadSettled(i, outcome) ==
    /\ i \in 1..Len(tool.sub)
    /\ tool.sub[i].pc = "read"
    /\ tool' = [tool EXCEPT !.sub[i] =
                   CASE outcome = "buffer" -> SubTask("dims", NULL, FALSE)
                     [] outcome = "none" -> SubTask("done", "failed", FALSE)
                     [] outcome = "throws" -> TaskCaught(tool.aborted, FALSE)]
    /\ UNCHANGED toolIdle

\* await getImageDimensions(imageBuffer), the second abort check, and the
\* call of engine.removeBackground
DimsSettled(i) ==
    /\ i \in 1..Len(tool.sub)
    /\ tool.sub[i].pc = "dims"
    /\ tool' = [tool EXCEPT !.sub[i] =
                   IF tool.aborted THEN SubTask("done", "cancelled", TRUE)
                   ELSE SubTask("remove", NULL, FALSE)]
    /\ UNCHANGED toolIdle

\* if (!result.success) return { index, success: false, error: result.error }
\* whatever the error says; requestCancelled tells that the engine saw the
\* signal aborted and returned 'Request cancelled'.
EngineFailure(requestCancelled) == SubTask("done", "failed", requestCancelled)

\* await engine.removeBackground(imageBuffer, engineConfig, abortSignal). The
\* engines check the signal on entry, between their steps and in their catch
\* block, and return { success: false, error: 'Request cancelled' } when it
\* is aborted.
RemoveSettled(i, outcome) ==
    /\ i \in 1..Len(tool.sub)
    /\ tool.sub[i].pc = "remove"
    /\ outcome = "requestCancelled" => tool.aborted
    /\ tool' = [tool EXCEPT !.sub[i] =
                   CASE outcome = "success" -> SubTask("write", NULL, FALSE)
                     [] outcome = "unresolvable" -> SubTask("done", "failed", FALSE)
                     [] outcome = "failure" -> EngineFailure(FALSE)
                     [] outcome = "requestCancelled" -> EngineFailure(TRUE)
                     [] outcome = "throws" -> TaskCaught(tool.aborted, FALSE)
                     [] outcome = "abortError" -> TaskCaught(tool.aborted, TRUE)]
    /\ UNCHANGED toolIdle

\* await vscode.workspace.fs.writeFile(outputUri, ...), and the mask after it
WriteSettled(i, ok) ==
    /\ i \in 1..Len(tool.sub)
    /\ tool.sub[i].pc = "write"
    /\ tool' = [tool EXCEPT !.sub[i] =
                   IF ok THEN SubTask("done", "success", FALSE)
                   ELSE TaskCaught(tool.aborted, FALSE)]
    /\ UNCHANGED toolIdle

\* await Promise.all(...): it rejects with the first subtask that rejected and
\* resolves once every subtask has returned.
AllSettled ==
    /\ tool.pc = "all"
    /\ IF \E i \in 1..Len(tool.sub) : tool.sub[i].res = "rejected"
       THEN tool' = HandlerCatch(tool, FALSE)
       ELSE /\ \A i \in 1..Len(tool.sub) : tool.sub[i].pc = "done"
            /\ tool' = HandlerReport(tool)
    /\ UNCHANGED toolIdle

\* context.abortSignal fires: the listener aborts the handler's controller.
ContextAbort ==
    /\ tool.pc # "idle"
    /\ ~tool.contextAborted
    /\ tool' = [tool EXCEPT !.contextAborted = TRUE,
                            !.aborted = @ \/ tool.listening]
    /\ UNCHANGED toolIdle

\* cancelRemoveBackground(toolId): TaskManager aborts the controller of a
\* registered task.
CancelRemoveBackground ==
    /\ tool.registered > Len(tool.unregistered)
    /\ ~tool.aborted
    /\ tool' = [tool EXCEPT !.aborted = TRUE]
    /\ UNCHANGED toolIdle

NextTool ==
    \/ \E tasks \in SeqsUpTo(TaskKinds, MaxBatch + 1), c \in BOOLEAN :
          Handler(tasks, c)
    \/ \E ok \in BOOLEAN, abortError \in BOOLEAN : EngineResolved(ok, abortError)
    \/ \E i \in 1..MaxBatch, outcome \in {"buffer", "none", "throws"} :
          ReadSettled(i, outcome)
    \/ \E i \in 1..MaxBatch : DimsSettled(i)
    \/ \E i \in 1..MaxBatch,
          outcome \in {"success", "unresolvable", "failure",
                       "requestCancelled", "throws", "abortError"} :
             RemoveSettled(i, outcome)
    \/ \E i \in 1..MaxBatch, ok \in BOOLEAN : WriteSettled(i, ok)
    \/ AllSettled
    \/ ContextAbort
    \/ CancelRemoveBackground


\* ========================================================= TransformersEngine
\* What a failed load may carry as error.message (or String(error)): a text,
\* or nothing, as `new Error()` does.
LoadMessages == {"", "load failed"}

\* A string in a condition: null and '' count as false.
Truthy(s) == s # NULL /\ s # ""

\* One call of removeBackground: the await it is suspended in, whether its
\* signal is aborted, whether initModel found a load in progress and waited,
\* how initModel ended for it (returned or threw, with the message thrown),
\* the segmenter it found on return, and the result of the call.
NoEngineCall == [pc |-> "idle", aborted |-> FALSE, waited |-> FALSE,
                 init |-> NULL, found |-> FALSE, message |-> NULL,
                 ret |-> NULL]

\* new TransformersEngine(), as createRemovalEngine caches it: segmenter = null
\* (FALSE here), isLoading = false, loadError = null.
NoEngine == [segmenter |-> FALSE, isLoading |-> FALSE, loadError |-> NULL,
             calls |-> [c \in 1..MaxCalls |-> NoEngineCall]]

\* removeBackground once `await this.initModel()` returned: without a
\* segmenter it answers 'Failed to initialize Transformers.js model', with one
\* it goes on to process the image.
InitReturned(call, segmenter) ==
    [call EXCEPT !.pc = "returned", !.init = "returned", !.found = segmenter,
                 !.ret = IF segmenter THEN "processing" ELSE "notInitialized"]

\* catch (error) of removeBackground, initModel having thrown message.
InitThrew(call, message) ==
    [call EXCEPT !.pc = "returned", !.init = "threw", !.message = message,
                 !.ret = IF call.aborted THEN "cancelled" ELSE "failed"]

\* initModel() up to its first await, as a call made on the engine e.
InitModel(e, c) ==
    IF e.segmenter THEN [e EXCEPT !.calls[c] = InitReturned(@, TRUE)]
    ELSE IF e.isLoading
         THEN [e EXCEPT !.calls[c].pc = "wait", !.calls[c].waited = TRUE]
         ELSE [e EXCEPT !.isLoading = TRUE, !.loadError = NULL,
                        !.calls[c].pc = "deps"]

\* catch and finally of initModel: loadError = message, isLoading = false,
\* and the error is thrown on to removeBackground.
LoadFailed(e, c, message) ==
    [e EXCEPT !.loadError = message, !.isLoading = FALSE,
              !.calls[c] = InitThrew(@, message)]

engineIdle == <<controllers, aborted, nextCtrl, replaced, lastCall, prevCall,
                tool, chatVars>>

\* removeBackground(imageBuffer, config, abortSignal) up to its first await
RemoveBackground(c, isAborted) ==
    /\ engine.calls[c].pc = "idle"
    /\ LET e == [engine EXCEPT !.calls[c].aborted = isAborted]
       IN engine' = IF isAborted
                    THEN [e EXCEPT !.calls[c].pc = "returned",
                                   !.calls[c].ret = "cancelled"]
                    ELSE InitModel(e, c)
    /\ UNCHANGED engineIdle

\* await depManager.load('@huggingface/transformers'); message is NULL when
\* it resolves. The pipeline call follows at once.
DepsSettled(c, message) ==
    /\ engine.calls[c].pc = "deps"
    /\ engine' = IF message = NULL THEN [engine EXCEPT !.calls[c].pc = "pipeline"]
                 ELSE LoadFailed(engine, c, message)
    /\ UNCHANGED engineIdle

\* this.segmenter = await pipeline('image-segmentation', MODEL_ID)
PipelineSettled(c, message) ==
    /\ engine.calls[c].pc = "pipeline"
    /\ engine' = IF message = NULL
                 THEN [engine EXCEPT !.segmenter = TRUE, !.isLoading = FALSE,
                                     !.calls[c] = InitReturned(@, TRUE)]
                 ELSE LoadFailed(engine, c, message)
    /\ UNCHANGED engineIdle

\* The waiting loop of initModel finds isLoading false after one of its
\* 100 ms sleeps: if (this.loadError) throw new Error(this.loadError); return
WaitOver(c) ==
    /\ engine.calls[c].pc = "wait"
    /\ ~engine.isLoading
    /\ engine' = [engine EXCEPT !.calls[c] =
                     IF Truthy(engine.loadError)
                     THEN InitThrew(@, engine.loadError)
                     ELSE InitReturned(@, engine.segmenter)]
    /\ UNCHANGED engineIdle

\* The signal of a call in flight is aborted.
AbortCall(c) ==
    /\ engine.calls[c].pc \in {"deps", "pipeline", "wait"}
    /\ ~engine.calls[c].aborted
    /\ engine' = [engine EXCEPT !.calls[c].aborted = TRUE]
    /\ UNCHANGED engineIdle

\* The result was handed to the caller; the next call may come.
CallDone(c) ==
    /\ engine.calls[c].pc = "returned"
    /\ engine' = [engine EXCEPT !.calls[c] = NoEngineCall]
    /\ UNCHANGED engineIdle

NextEngine ==
    \/ \E c \in 1..MaxCalls, isAborted \in BOOLEAN : RemoveBackground(c, isAborted)
    \/ \E c \in 1..MaxCalls, message \in LoadMessages \cup {NULL} :
          DepsSettled(c, message)
    \/ \E c \in 1..MaxCalls, message \in LoadMessages \cup {NULL} :
          PipelineSettled(c, message)
    \/ \E c \in 1..MaxCalls : WaitOver(c)
    \/ \E c \in 1..MaxCalls : AbortCall(c)
    \/ \E c \in 1..MaxCalls : CallDone(c)


\* ------------------------------------------------------------ specifications
\* create, cancel or delete called on the Map m by an abort listener; fresh
\* is the controller a create makes.
Reenter(m, ab, hook, fresh) ==
    CASE hook.op = "create" -> [m |-> MapSet(m, hook.key, fresh), aborted |-> ab]
      [] hook.op = "cancel" ->
            [m |-> MapDelete(m, hook.key),
             aborted |-> IF MapHas(m, hook.key)
                         THEN ab \cup {MapGet(m, hook.key)} ELSE ab]
      [] hook.op = "delete" -> [m |-> MapDelete(m, hook.key), aborted |-> ab]

\* The for...of loop of cancelAll over the live Map, from the entry at
\* position i on, this being the n-th entry the iterator yields. A Map
\* iterator yields the entries appended while it runs and passes over the
\* ones deleted before it reaches them; an entry deleted at or before the
\* iterator's position moves the later ones up by one.
RECURSIVE CancelAllLive(_, _, _, _, _, _, _, _)
CancelAllLive(m, i, n, view, failing, hook, fresh, acc) ==
    IF i > Len(m) THEN acc
    ELSE LET ab == acc.aborted \cup {m[i].ctrl}
             r == IF hook.at = n THEN Reenter(m, ab, hook, fresh)
                  ELSE [m |-> m, aborted |-> ab]
             next == IF Len(r.m) < Len(m) /\ MapIndex(m, hook.key) <= i
                     THEN i ELSE i + 1
             post == PostCancelled(view, failing, m[i].key)
             a == [acc EXCEPT !.aborted = r.aborted,
                              !.byLoop = Append(@, m[i].ctrl),
                              !.attempts = Append(@, m[i].key),
                              !.posted = IF post = "posted"
                                         THEN Append(@, m[i].key) ELSE @,
                              !.reentered = @ \/ hook.at = n,
                              !.m = r.m]
         IN CancelAllLive(r.m, next, n + 1, view, failing, hook, fresh, a)

\* cancelAll(view?) during which an abort listener calls back into the
\* registry.
CancelAllReentered(view, failing, hook) ==
    LET r == CancelAllLive(controllers, 1, 1, view, failing, hook, nextCtrl,
                 [aborted |-> aborted, byLoop |-> <<>>, attempts |-> <<>>,
                  posted |-> <<>>, reentered |-> FALSE, m |-> controllers])
    IN /\ hook.op = "create" => nextCtrl <= MaxCtrl
       /\ r.reentered
       /\ aborted' = r.aborted
       /\ controllers' = <<>>
       /\ nextCtrl' = IF hook.op = "create" THEN nextCtrl + 1 ELSE nextCtrl
       /\ prevCall' = lastCall
       /\ lastCall' = [Call("cancelAll", NULL, r.byLoop) EXCEPT
                          !.view = view, !.failing = failing,
                          !.attempts = r.attempts, !.posted = r.posted,
                          !.hook = hook]
       /\ UNCHANGED replaced
       /\ UNCHANGED <<chatVars, tool, engine>>

Hooks == {[at |-> a, op |-> o, key |-> k] :
             a \in 1..MaxCtrl, o \in {"create", "cancel", "delete"}, k \in Keys}

InitAbort ==
    /\ controllers = <<>>
    /\ aborted = {}
    /\ nextCtrl = 1
    /\ replaced = {}
    /\ lastCall = NoCall
    /\ prevCall = NoCall
    /\ tool = NoTool
    /\ engine = NoEngine

NextAbort ==
    \/ \E k \in Keys : Create(k)
    \/ \E k \in Keys : Get(k)
    \/ \E k \in Keys : Cancel(k)
    \/ \E k \in Keys : Delete(k)
    \/ \E view \in BOOLEAN, failing \in SUBSET Keys : CancelAll(view, failing)

NextReentrant ==
    \/ \E k \in Keys : Create(k)
    \/ \E k \in Keys : Cancel(k)
    \/ \E k \in Keys : Delete(k)
    \/ \E view \in BOOLEAN, failing \in SUBSET Keys : CancelAll(view, failing)
    \/ \E view \in BOOLEAN, hook \in Hooks : CancelAllReentered(view, {}, hook)


\* ================================================================ chat store
ConvIds == Keys

\* A suspended operation: where it waits (pc), its index argument, the
\* conversation its pending request names (conv), the conversation it was
\* called for (target), the turn its request will carry, the isPersisted flag
\* of the conversation object it holds, and the conversation whose
\* deleteConversation awaits it (del).
NoProc == [op |-> "idle", pc |-> "idle", idx |-> 0, conv |-> NULL,
           target |-> NULL, turn |-> 0, text |-> <<>>, persisted |-> TRUE,
           del |-> NULL]

Proc(op, pc, idx, conv, turn) ==
    [NoProc EXCEPT !.op = op, !.pc = pc, !.idx = idx, !.conv = conv,
                   !.turn = turn]

\* The slot an operation suspends in. Operations called one after the other
\* share MsgSlot; a switchConversation called while a message operation is
\* suspended takes ConvSlot.
MsgSlot == 1

ConvSlot == MaxProcs

Free(p) == procs[p].op = "idle"

\* generateId(): an id no message of the list and no streamingMessageId has.
\* An id nothing refers to any more is as good as new, so the least unused
\* one above those in use stands for it.
RECURSIVE MaxId(_, _)
MaxId(msgs, m) ==
    IF msgs = <<>> THEN m
    ELSE MaxId(Tail(msgs), IF Head(msgs).id > m THEN Head(msgs).id ELSE m)

GenerateId(s) == MaxId(s.allMessages, s.streamingMessageId) + 1

Msg(id, role, content, streaming) ==
    [id |-> id, role |-> role, content |-> content, streaming |-> streaming]

Label(op, arg) == [op |-> op, arg |-> arg, content |-> FALSE, conv |-> NULL,
                   turn |-> 0, sidNull |-> FALSE, idx |-> 0, pre |-> <<>>,
                   preCkpt |-> {}, code |-> NULL, current |-> FALSE]

Other == Label("other", "")

HasConv(s, id) == \E i \in 1..Len(s.conversations) : s.conversations[i].id = id

\* isLoading = isStreaming = isWaitingForResponse = true
BeginTurn(s) ==
    [s EXCEPT !.isLoading = TRUE, !.isStreaming = TRUE,
              !.isWaitingForResponse = TRUE]

\* Push the assistant placeholder {content: '', streaming: true} and point
\* streamingMessageId at it.
OpenPlaceholder(s, id) ==
    [s EXCEPT !.allMessages = Append(@, Msg(id, "assistant", <<>>, TRUE)),
              !.streamingMessageId = id]

\* The refs that hold the transient state of one turn; state.transient is the
\* set of those that hold something.
ToolCallFields == {"toolCallBuffer", "inToolCall"}

DiffFields == {"processedDiffTools", "handledDiffIds", "handledFilePaths",
               "pendingDiffToolIds", "pendingAnnotation"}

\* toolCallBuffer = '', inToolCall = null
ResetToolCall(s) == [s EXCEPT !.transient = @ \ ToolCallFields]

\* processedDiffTools = new Map(), handledDiffIds = new Set(),
\* handledFilePaths = new Map(), pendingDiffToolIds = [], pendingAnnotation = ''
ResetDiff(s) == [s EXCEPT !.transient = @ \ DiffFields]

\* The conversations whose messageCount is followed: those that start with
\* one (InitCount).
Counted(s, id) ==
    \E i \in 1..Len(s.conversations) :
        /\ s.conversations[i].id = id
        /\ "messageCount" \in DOMAIN s.conversations[i]

\* conv.messageCount = n for the conversation id, if the list has it.
SetCount(s, id, n) ==
    IF ~Counted(s, id) THEN s
    ELSE [s EXCEPT !.conversations =
             [i \in 1..Len(@) |-> IF @[i].id = id
                                  THEN [@[i] EXCEPT !.messageCount = n]
                                  ELSE @[i]]]

\* sendMessage, from the user message to the reset of the tool-call buffer.
SendBody(s, uid, aid) ==
    LET s1 == [s EXCEPT !.allMessages =
                   Append(@, Msg(uid, "user", <<UserText>>, FALSE))]
        s2 == OpenPlaceholder(s1, aid)
    IN ResetToolCall(SetCount(s2, s2.currentConversationId, Len(s2.allMessages)))

\* err.code || '<default>'
ErrCode(code, default) == IF code = NULL THEN default ELSE code

\* Codes a rejected request carries: none, or the backend's own.
ErrCodes == {NULL, "E_BACKEND"}

\* A catch block that records the error and clears streamingMessageId but
\* leaves the turn's flags set.
DispatchFailedKeepingFlags(s, code) ==
    IF s.isStreaming
    THEN [s EXCEPT !.error = code, !.streamingMessageId = NoId]
    ELSE s

\* The catch block of a turn-starting operation.
DispatchFailed(s, code) ==
    IF s.isStreaming
    THEN [s EXCEPT !.error = code, !.streamingMessageId = NoId,
                   !.isStreaming = FALSE, !.isWaitingForResponse = FALSE]
    ELSE s

\* A turn-starting operation without its finally block.
StillLoading(s) == s

\* finally { isLoading = false }
EndLoading(s) == [s EXCEPT !.isLoading = FALSE]

DefaultCode(op) ==
    CASE op = "send" -> "SEND_ERROR"
      [] op = "edit" -> "EDIT_RETRY_ERROR"
      [] OTHER -> "RETRY_ERROR"

\* conv_${Date.now()}_${random}: an id no conversation has.
FreshConvIds ==
    {c \in ConvIds : /\ c \notin backendConvs
                     /\ ~HasConv(state, c)
                     /\ \A p \in 1..MaxProcs : procs[p].conv # c}

\* sendMessage(messageText, attachments): up to its first await.
SendMessage(messageText, hasAtt) ==
    /\ UNCHANGED abortVars
    /\ UNCHANGED <<turns, backendConvs, observedCancelled>>
    /\ last' = Other
    /\ IF IsBlank(messageText) /\ ~hasAtt
       THEN UNCHANGED <<state, procs, nextTurn>>
       ELSE IF state.isWaitingForResponse
       THEN /\ state' = [state EXCEPT !.error = NULL]
            /\ UNCHANGED <<procs, nextTurn>>
       ELSE /\ Free(MsgSlot)
            /\ nextTurn <= MaxTurns
            /\ nextTurn' = nextTurn + 1
            /\ LET s1 == BeginTurn([state EXCEPT !.error = NULL])
               IN IF s1.currentConversationId = NULL
                  THEN \E id \in FreshConvIds :
                          /\ state' = s1
                          /\ procs' = [procs EXCEPT ![MsgSlot] =
                                 [Proc("send", "create", 0, id, nextTurn)
                                    EXCEPT !.text = messageText]]
                  ELSE /\ state' = SendBody(s1, GenerateId(s1), GenerateId(s1) + 1)
                       /\ procs' = [procs EXCEPT ![MsgSlot] =
                              Proc("send", "dispatch", 0,
                                   s1.currentConversationId, nextTurn)]

\* createAndPersistConversation, after conversation.createConversation settled,
\* and sendMessage from there to the chatStream request.
CreateSettled(p, ok) ==
    /\ procs[p].op = "send" /\ procs[p].pc = "create"
    /\ UNCHANGED abortVars
    /\ UNCHANGED <<turns, nextTurn, observedCancelled>>
    /\ last' = Other
    /\ IF ok
       THEN LET id == procs[p].conv
                s1 == [state EXCEPT
                         !.conversations =
                             <<[id |-> id, isPersisted |-> TRUE,
                                title |-> Title(procs[p].text)]>> \o @,
                         !.currentConversationId = id]
            IN /\ backendConvs' = backendConvs \cup {id}
               /\ state' = SendBody(s1, GenerateId(s1), GenerateId(s1) + 1)
               /\ procs' = [procs EXCEPT ![p].pc = "dispatch", ![p].text = <<>>]
       ELSE /\ state' = EndLoading(DispatchFailed(state, "SEND_ERROR"))
            /\ procs' = [procs EXCEPT ![p] = NoProc]
            /\ UNCHANGED backendConvs

\* A turn the backend has not been asked for. upd, count: the
\* updateConversationAfterMessage the turn's `complete` event started, and
\* the message count it took.
NoTurn == [conv |-> NULL, status |-> "none", emitted |-> 0, upd |-> "none",
           count |-> 0]

\* The backend takes a turn request and starts the turn.
BackendStart(p) ==
    /\ procs[p].pc = "dispatch"
    /\ turns' = [turns EXCEPT ![procs[p].turn] =
                    [NoTurn EXCEPT !.conv = procs[p].conv, !.status = "active"]]
    /\ procs' = [procs EXCEPT ![p].pc = "started"]
    /\ last' = Other
    /\ UNCHANGED abortVars
    /\ UNCHANGED <<state, nextTurn, backendConvs,
                   observedCancelled>>

\* The turn request rejects: the operation's catch and finally blocks.
DispatchRejected(p, code) ==
    /\ procs[p].pc = "dispatch"
    /\ state' = EndLoading(DispatchFailed(state,
                    ErrCode(code, DefaultCode(procs[p].op))))
    /\ procs' = [procs EXCEPT ![p] = NoProc]
    /\ last' = Other
    /\ UNCHANGED abortVars
    /\ UNCHANGED <<turns, nextTurn, backendConvs,
                   observedCancelled>>

\* The turn request resolves: the operation's finally block.
DispatchResolved(p) ==
    /\ procs[p].pc = "started"
    /\ state' = EndLoading(state)
    /\ procs' = [procs EXCEPT ![p] = NoProc]
    /\ last' = Other
    /\ UNCHANGED abortVars
    /\ UNCHANGED <<turns, nextTurn, backendConvs,
                   observedCancelled>>

\* ------------------------------------------------------------ stream events
Event(conv, type, content, turn, idx) ==
    [conversationId |-> conv, type |-> type, content |-> content,
     turn |-> turn, idx |-> idx]

CkptIdx == 0..MaxCkpt

\* The kinds a running turn emits before its terminal event; `chunk` and
\* `toolIteration` come with or without their payload.
Emitted ==
    {<<"chunk", TRUE>>, <<"chunk", FALSE>>, <<"toolsExecuting", TRUE>>,
     <<"awaitingConfirmation", TRUE>>, <<"toolIteration", TRUE>>,
     <<"toolIteration", FALSE>>, <<"checkpoints", TRUE>>}

\* The message streamingMessageId names gets streaming = false.
Finalize(s) ==
    [s EXCEPT !.allMessages =
        [i \in 1..Len(@) |-> IF @[i].id = s.streamingMessageId
                             THEN [@[i] EXCEPT !.streaming = FALSE] ELSE @[i]]]

HasStreamingTarget(s) ==
    \E i \in 1..Len(s.allMessages) : s.allMessages[i].id = s.streamingMessageId

EndTurn(s) ==
    [s EXCEPT !.streamingMessageId = NoId, !.isStreaming = FALSE,
              !.isWaitingForResponse = FALSE, !.isLoading = FALSE]

\* chunk: append the fragment to the message streamingMessageId names.
HandleChunkType(s, chunk) ==
    [s EXCEPT !.allMessages =
        [i \in 1..Len(@) |-> IF @[i].id = s.streamingMessageId
                             THEN [@[i] EXCEPT !.content = Append(@, chunk.turn)]
                             ELSE @[i]]]

\* toolsExecuting, awaitingConfirmation: tool-call status only.
HandleToolsExecuting(s, chunk) == s

HandleAwaitingConfirmation(s, chunk) == s

\* toolIteration: finalize the streaming message and open a new placeholder.
HandleToolIteration(s, chunk, newId) ==
    IF HasStreamingTarget(s) THEN OpenPlaceholder(Finalize(s), newId) ELSE s

\* complete: finalize, clear streamingMessageId and the flags.
HandleComplete(s, chunk) == EndTurn(Finalize(s))

\* checkpoints: addCheckpoint for each record.
HandleCheckpoints(s, chunk) == [s EXCEPT !.checkpoints = @ \cup {chunk.idx}]

\* cancelled: finalize as stopped, content kept.
HandleCancelled(s, chunk) == EndTurn(Finalize(s))

\* error: record it, finalize, clear the flags.
HandleError(s, chunk) == [EndTurn(Finalize(s)) EXCEPT !.error = "STREAM_ERROR"]

\* A handler that takes a `chunk` whatever streamingMessageId is and, with no
\* streaming message, appends to the last message of the list.
HandleStreamChunkNoIdCheck(s, chunk, newId) ==
    IF chunk.conversationId # s.currentConversationId THEN s
    ELSE IF chunk.type = "chunk" /\ chunk.content /\ s.allMessages # <<>>
    THEN IF HasStreamingTarget(s) THEN HandleChunkType(s, chunk)
         ELSE [s EXCEPT !.allMessages[Len(s.allMessages)].content =
                             Append(@, chunk.turn)]
    ELSE s

\* A handler without the conversationId filter.
HandleStreamChunkNoFilter(s, chunk, newId) ==
    CASE chunk.type = "chunk" ->
            IF chunk.content /\ s.streamingMessageId # NoId
            THEN HandleChunkType(s, chunk) ELSE s
      [] chunk.type = "toolIteration" ->
            IF chunk.content THEN HandleToolIteration(s, chunk, newId) ELSE s
      [] chunk.type = "complete" ->
            IF chunk.content THEN HandleComplete(s, chunk) ELSE s
      [] chunk.type = "checkpoints" -> HandleCheckpoints(s, chunk)
      [] chunk.type = "cancelled" -> HandleCancelled(s, chunk)
      [] chunk.type = "error" -> HandleError(s, chunk)
      [] OTHER -> s

\* handleStreamChunk(chunk, ctx)
HandleStreamChunk(s, chunk, newId) ==
    IF chunk.conversationId # s.currentConversationId THEN s
    ELSE CASE chunk.type = "chunk" ->
                 IF chunk.content /\ s.streamingMessageId # NoId
                 THEN HandleChunkType(s, chunk) ELSE s
           [] chunk.type = "toolsExecuting" -> HandleToolsExecuting(s, chunk)
           [] chunk.type = "awaitingConfirmation" ->
                 HandleAwaitingConfirmation(s, chunk)
           [] chunk.type = "toolIteration" ->
                 IF chunk.content THEN HandleToolIteration(s, chunk, newId) ELSE s
           [] chunk.type = "complete" ->
                 IF chunk.content THEN HandleComplete(s, chunk) ELSE s
           [] chunk.type = "checkpoints" -> HandleCheckpoints(s, chunk)
           [] chunk.type = "cancelled" -> HandleCancelled(s, chunk)
           [] chunk.type = "error" -> HandleError(s, chunk)
           [] OTHER -> s

\* The webview's message listener handles stream event e: handleStreamChunk
\* and what the handlers start. The transport keeps the order of posting, so
\* an event is handled in the step that posts it; an event that arrives late
\* is one the turn posts late.
Deliver(e) ==
    LET s2 == HandleStreamChunk(state, e, GenerateId(state))
    IN /\ state' = s2
       /\ observedCancelled' =
             IF /\ e.conversationId = state.currentConversationId
                /\ e.type = "cancelled"
             THEN observedCancelled \cup {e.turn} ELSE observedCancelled
       /\ last' = IF \/ e.type = "chunk"
                      \/ e.conversationId # state.currentConversationId
                   THEN [Label("deliver", e.type) EXCEPT
                            !.content = e.content, !.conv = e.conversationId,
                            !.turn = e.turn,
                            !.sidNull = (state.streamingMessageId = NoId)]
                   ELSE Other

\* A running turn posts a non-terminal event.
BackendEmit(t, kind, idx) ==
    /\ turns[t].status = "active"
    /\ turns[t].emitted < MaxEmit
    /\ kind[1] # "checkpoints" => idx = 0
    /\ Deliver(Event(turns[t].conv, kind[1], kind[2], t, idx))
    /\ turns' = [turns EXCEPT ![t].emitted = @ + 1]
    /\ UNCHANGED abortVars
    /\ UNCHANGED <<procs, nextTurn, backendConvs>>

\* The stream handler, while the turn of the conversation shown streams a tool
\* call that edits a file: the tool-call buffer and the diff tracking refs
\* take up what belongs to this turn.
ToolActivity(t) ==
    /\ turns[t].status = "active"
    /\ turns[t].conv = state.currentConversationId
    /\ state.streamingMessageId # NoId
    /\ state' = [state EXCEPT !.transient = ToolCallFields \cup DiffFields]
    /\ last' = Other
    /\ UNCHANGED abortVars
    /\ UNCHANGED <<procs, turns, nextTurn, backendConvs, observedCancelled>>

\* updateConversationAfterMessage(), called by handleComplete, up to its
\* first await: it takes the conversation and the length of the list.
UpdateCall(turn, s) ==
    IF s.currentConversationId = NULL \/ ~Counted(s, s.currentConversationId)
    THEN turn
    ELSE [turn EXCEPT !.upd = "pending", !.count = Len(s.allMessages)]

\* The turn ends by itself: `complete` (with its content, or without) or `error`.
BackendFinish(t, type, content) ==
    /\ turns[t].status = "active"
    /\ type = "error" => content
    /\ Deliver(Event(turns[t].conv, type, content, t, 0))
    /\ turns' = [turns EXCEPT
                    ![t] = IF /\ type = "complete" /\ content
                              /\ turns[t].conv = state.currentConversationId
                           THEN UpdateCall([@ EXCEPT !.status = "done"], state')
                           ELSE [@ EXCEPT !.status = "done"]]
    /\ UNCHANGED abortVars
    /\ UNCHANGED <<procs, nextTurn, backendConvs>>

\* Cancellation is cooperative: the fragment of a cancelled turn that was
\* already in flight still arrives.
BackendStale(t) ==
    /\ turns[t].status = "cancelled"
    /\ Deliver(Event(turns[t].conv, "chunk", TRUE, t, 0))
    /\ turns' = [turns EXCEPT ![t].status = "drained"]
    /\ UNCHANGED abortVars
    /\ UNCHANGED <<procs, nextTurn, backendConvs>>


\* -------------------------------------------------------------- cancelStream
\* The turn a cancel request for conversation c reaches: the one registered
\* last for c (StreamAbortManager keeps one controller per key).
ActiveTurns(c) == {t \in 1..MaxTurns : turns[t].status = "active" /\ turns[t].conv = c}

LatestTurn(c) == CHOOSE t \in ActiveTurns(c) : \A u \in ActiveTurns(c) : u <= t

\* The backend serves the cancel request of operation p: it aborts the turn of
\* that conversation, if one runs, and posts its `cancelled` event.
BackendCancel(p) ==
    /\ procs[p].pc = "cancel"
    /\ procs' = [procs EXCEPT ![p].pc = "acked"]
    /\ IF ActiveTurns(procs[p].conv) # {}
       THEN LET t == LatestTurn(procs[p].conv)
            IN /\ turns' = [turns EXCEPT ![t].status = "cancelled"]
               /\ Deliver(Event(turns[t].conv, "cancelled", TRUE, t, 0))
       ELSE /\ last' = Other
            /\ UNCHANGED <<state, turns, observedCancelled>>
    /\ UNCHANGED abortVars
    /\ UNCHANGED <<nextTurn, backendConvs>>

\* cancelStream(), called by the user (the stop button).
CancelStream ==
    /\ state.isStreaming
    /\ Free(MsgSlot)
    /\ procs' = [procs EXCEPT ![MsgSlot] =
                    Proc("cancelStream", "cancel", 0,
                         state.currentConversationId, 0)]
    /\ last' = Other
    /\ UNCHANGED abortVars
    /\ UNCHANGED <<state, turns, nextTurn, backendConvs,
                   observedCancelled>>

\* clearCheckpointsFromIndex(state, index)
ClearCheckpointsFromIndex(s, index) ==
    [s EXCEPT !.checkpoints = {c \in @ : c < index}]

\* retryFromMessage: from `error = null` to the deleteMessage request.
RetryTruncate(s, index) ==
    ClearCheckpointsFromIndex(
        [BeginTurn([s EXCEPT !.error = NULL]) EXCEPT
            !.allMessages = SubSeq(@, 1, IF index < Len(@) THEN index ELSE Len(@))],
        index)

\* editAndRetry: from `error = null` to the placeholder. The message at
\* messageIndex is edited in place; when the list no longer has it, the
\* assignment to targetMessage.content throws and the rest does not run.
EditTruncate(s, index) ==
    LET s1 == BeginTurn([s EXCEPT !.error = NULL])
        s2 == ClearCheckpointsFromIndex(
                  [s1 EXCEPT !.allMessages =
                      SubSeq([@ EXCEPT ![index + 1].content = <<EditedText>>],
                             1, index + 1)],
                  index)
    IN IF index >= Len(s1.allMessages) THEN s1
       ELSE OpenPlaceholder(ResetToolCall(s2), GenerateId(s2))

\* switchConversation: the block that clears the store for conversation id.
SwitchClear(s, id) ==
    [s EXCEPT !.currentConversationId = id, !.allMessages = <<>>,
              !.checkpoints = {}, !.error = NULL, !.isLoading = FALSE,
              !.isStreaming = FALSE, !.streamingMessageId = NoId,
              !.isWaitingForResponse = FALSE]

ConvOf(s, id) ==
    s.conversations[CHOOSE i \in 1..Len(s.conversations) : s.conversations[i].id = id]

\* A deleteConversation whose finally block leaves the id in the set.
KeepLock(s, del) == s

\* deleteConversation(del): `return true` and the finally block that drops
\* the lock; nothing for an operation no deleteConversation awaits.
ReleaseLock(s, del) ==
    IF del = NULL THEN s
    ELSE [s EXCEPT !.deletingConversationIds = @ \ {del}]

\* The record of a step in which deleteConversation(id) returned: what it
\* returned, and whether it had found id to be the current conversation.
Returned(id, result, current) ==
    [Label("deleteConversation", result) EXCEPT !.conv = id,
                                                !.current = current]

\* switchConversation from its clearing block to `await loadHistory`; an
\* unpersisted conversation has nothing to load and the operation ends.
SwitchCleared(s, pr) ==
    LET s1 == SwitchClear(s, pr.target)
    IN IF pr.persisted
       THEN [s |-> s1, pr |-> [pr EXCEPT !.pc = "history", !.conv = pr.target]]
       ELSE [s |-> ReleaseLock(s1, pr.del), pr |-> NoProc]

\* A switchConversation that clears the store before it cancels the turn.
SwitchCallClearingFirst(s, id, del) ==
    LET pr == [Proc("switch", "cancel", 0, s.currentConversationId, 0) EXCEPT
                  !.target = id, !.del = del,
                  !.persisted = ConvOf(s, id).isPersisted]
    IN IF s.isWaitingForResponse \/ s.isStreaming
       THEN [s |-> SwitchClear(s, id), pr |-> pr]
       ELSE SwitchCleared(s, pr)

\* switchConversation(id) on a store s that has conversation id, up to its
\* first await: the store it leaves and the operation it suspends as (NoProc
\* when it ran to its end). del: the deleteConversation that awaits it.
SwitchCall(s, id, del) ==
    LET pr == [Proc("switch", "cancel", 0, s.currentConversationId, 0) EXCEPT
                  !.target = id, !.del = del,
                  !.persisted = ConvOf(s, id).isPersisted]
    IN IF s.isWaitingForResponse \/ s.isStreaming
       THEN [s |-> s, pr |-> pr]
       ELSE SwitchCleared(s, pr)

\* createNewConversation: the block after the cancel.
NewClear(s) ==
    [s EXCEPT !.currentConversationId = NULL, !.allMessages = <<>>,
              !.checkpoints = {}, !.error = NULL, !.isLoading = FALSE,
              !.isStreaming = FALSE, !.streamingMessageId = NoId,
              !.isWaitingForResponse = FALSE]

\* createNewConversation() up to its first await, as SwitchCall.
CreateNewCall(s, del) ==
    IF s.isWaitingForResponse \/ s.isStreaming
    THEN [s |-> s,
          pr |-> [Proc("createNew", "cancel", 0, s.currentConversationId, 0)
                     EXCEPT !.del = del]]
    ELSE [s |-> ReleaseLock(NewClear(s), del), pr |-> NoProc]

\* The record of a step in which retryFromMessage or editAndRetry cut the
\* list at index: the list and the checkpoints it found.
Truncation(op, index) ==
    [Label("truncate", op) EXCEPT !.idx = index, !.pre = state.allMessages,
                                  !.preCkpt = state.checkpoints]

\* The part of operation pr, in slot p, that follows
\* `if (isStreaming) await cancelStream()`.
AfterCancel(p, pr) ==
    CASE pr.op = "retry" ->
            /\ state' = RetryTruncate(state, pr.idx)
            /\ procs' = [procs EXCEPT ![p] =
                   [pr EXCEPT !.pc = "delete",
                              !.conv = state.currentConversationId]]
      [] pr.op = "edit" ->
            /\ state' = EditTruncate(state, pr.idx)
            /\ procs' = [procs EXCEPT ![p] =
                   IF pr.idx >= Len(state.allMessages) THEN NoProc
                   ELSE [pr EXCEPT !.pc = "dispatch",
                                   !.conv = state.currentConversationId]]
      [] pr.op = "switch" ->
            /\ state' = SwitchCleared(state, pr).s
            /\ procs' = [procs EXCEPT ![p] = SwitchCleared(state, pr).pr]
      [] pr.op = "createNew" ->
            /\ state' = ReleaseLock(NewClear(state), pr.del)
            /\ procs' = [procs EXCEPT ![p] = NoProc]
      [] pr.op \in {"delete", "deleteSingle"} ->
            /\ procs' = [procs EXCEPT ![p] =
                   [pr EXCEPT !.pc = "deleting",
                              !.conv = state.currentConversationId]]
            /\ UNCHANGED state
      [] OTHER ->
            /\ procs' = [procs EXCEPT ![p] = NoProc]
            /\ UNCHANGED state

\* cancelStream() has resolved: the operation goes on.
CancelAcked(p) ==
    /\ procs[p].pc = "acked"
    /\ AfterCancel(p, procs[p])
    /\ last' = IF procs[p].op \in {"retry", "edit"}
               THEN Truncation(procs[p].op, procs[p].idx)
               ELSE IF procs[p].del # NULL /\ procs'[p] = NoProc
               THEN Returned(procs[p].del, "true", TRUE)
               ELSE Other
    /\ UNCHANGED abortVars
    /\ UNCHANGED <<turns, nextTurn, backendConvs, observedCancelled>>

\* The cancel callback operation p awaits rejects. The exception leaves the
\* operation; when deleteConversation awaits it (the follow-up switch or
\* create), its catch and finally blocks run.
CancelRejected(p, code) ==
    /\ procs[p].pc = "cancel"
    /\ state' = IF procs[p].del = NULL THEN state
                ELSE ReleaseLock(
                        [state EXCEPT !.error = ErrCode(code, "DELETE_ERROR")],
                        procs[p].del)
    /\ procs' = [procs EXCEPT ![p] = NoProc]
    /\ last' = IF procs[p].del = NULL THEN Other
               ELSE Returned(procs[p].del, "false", TRUE)
    /\ UNCHANGED abortVars
    /\ UNCHANGED <<turns, nextTurn, backendConvs, observedCancelled>>

\* retryFromMessage(messageIndex, cancelStream): up to its first await; the
\* operation suspends in slot p.
RetryFromMessage(index, p) ==
    /\ UNCHANGED abortVars
    /\ UNCHANGED <<turns, backendConvs, observedCancelled>>
    /\ IF \/ state.currentConversationId = NULL
          \/ state.allMessages = <<>>
          \/ index < 0 \/ index >= Len(state.allMessages)
       THEN UNCHANGED <<state, procs, nextTurn>> /\ last' = Other
       ELSE /\ Free(p)
            /\ nextTurn <= MaxTurns
            /\ nextTurn' = nextTurn + 1
            /\ IF state.isStreaming
               THEN /\ procs' = [procs EXCEPT ![p] =
                         Proc("retry", "cancel", index,
                              state.currentConversationId, nextTurn)]
                    /\ UNCHANGED state
                    /\ last' = Other
               ELSE /\ AfterCancel(p, Proc("retry", "", index, NULL, nextTurn))
                    /\ last' = Truncation("retry", index)

\* A retryFromMessage that treats a failed deleteMessage request as the other
\* operations treat a failed request: it records the error and ends the turn.
RetryDeleteReporting(s, ok) ==
    IF ok THEN OpenPlaceholder(s, GenerateId(s))
    ELSE [EndTurn(s) EXCEPT !.error = "RETRY_ERROR", !.isLoading = FALSE]

\* retryFromMessage from the deleteMessage request settling to the retryStream
\* request: try { await sendToExtension('deleteMessage') } catch { log }, the
\* resets and the placeholder. `ok`: the request resolved.
RetryDelete(s, ok) ==
    OpenPlaceholder(ResetDiff(ResetToolCall(s)), GenerateId(s))

\* The deleteMessage request of retryFromMessage p settles.
RetryDeleteSettled(p, ok) ==
    /\ procs[p].op = "retry" /\ procs[p].pc = "delete"
    /\ state' = RetryDelete(state, ok)
    /\ procs' = [procs EXCEPT ![p].pc = "dispatch",
                              ![p].conv = state.currentConversationId]
    /\ last' = Other
    /\ UNCHANGED abortVars
    /\ UNCHANGED <<turns, nextTurn, backendConvs, observedCancelled>>

\* retryAfterError(): up to the retryStream request.
RetryAfterError ==
    /\ last' = Other
    /\ UNCHANGED abortVars
    /\ UNCHANGED <<turns, backendConvs, observedCancelled>>
    /\ IF \/ state.currentConversationId = NULL
          \/ state.isLoading \/ state.isStreaming
       THEN UNCHANGED <<state, procs, nextTurn>>
       ELSE /\ Free(MsgSlot)
            /\ nextTurn <= MaxTurns
            /\ nextTurn' = nextTurn + 1
            /\ state' = OpenPlaceholder(
                            ResetToolCall(BeginTurn([state EXCEPT !.error = NULL])),
                            GenerateId(state))
            /\ procs' = [procs EXCEPT ![MsgSlot] =
                            Proc("retryAfterError", "dispatch", 0,
                                 state.currentConversationId, nextTurn)]

\* editAndRetry(messageIndex, newMessage, attachments, cancelStream): up to its
\* first await. `blank`: the new text is blank and there is no attachment.
EditAndRetry(index, blank) ==
    /\ UNCHANGED abortVars
    /\ UNCHANGED <<turns, backendConvs, observedCancelled>>
    /\ IF \/ blank
          \/ state.currentConversationId = NULL
          \/ index < 0 \/ index >= Len(state.allMessages)
       THEN UNCHANGED <<state, procs, nextTurn>> /\ last' = Other
       ELSE /\ Free(MsgSlot)
            /\ nextTurn <= MaxTurns
            /\ nextTurn' = nextTurn + 1
            /\ IF state.isStreaming
               THEN /\ procs' = [procs EXCEPT ![MsgSlot] =
                         Proc("edit", "cancel", index,
                              state.currentConversationId, nextTurn)]
                    /\ UNCHANGED state
                    /\ last' = Other
               ELSE /\ AfterCancel(MsgSlot,
                                   Proc("edit", "", index, NULL, nextTurn))
                    /\ last' = Truncation("edit", index)

\* How a deleteMessage / deleteSingleMessage request settles: the response
\* says success, it says success: false, or the request rejects.
Outcomes == {"success", "refused", "rejected"}

\* A deleteMessage that cuts the list whatever the backend answered.
DeleteOptimistic(s, targetIndex, outcome, code) ==
    LET cut == ClearCheckpointsFromIndex(
                   [s EXCEPT !.allMessages =
                       SubSeq(@, 1, IF targetIndex < Len(@) THEN targetIndex
                                    ELSE Len(@))],
                   targetIndex)
    IN IF outcome = "rejected"
       THEN [cut EXCEPT !.error = ErrCode(code, "DELETE_ERROR")]
       ELSE cut

\* deleteMessage: the try/catch around the deleteMessage request, once the
\* request has settled.
DeleteApply(s, targetIndex, outcome, code) ==
    CASE outcome = "success" ->
            ClearCheckpointsFromIndex(
                [s EXCEPT !.allMessages =
                    SubSeq(@, 1, IF targetIndex < Len(@) THEN targetIndex
                                 ELSE Len(@))],
                targetIndex)
      [] outcome = "refused" -> s
      [] OTHER -> [s EXCEPT !.error = ErrCode(code, "DELETE_ERROR")]

\* slice(0, targetIndex) followed by slice(targetIndex + 1)
RemoveAt(msgs, targetIndex) ==
    SubSeq(msgs, 1, IF targetIndex < Len(msgs) THEN targetIndex ELSE Len(msgs))
    \o SubSeq(msgs, targetIndex + 2, Len(msgs))

\* A deleteSingleMessage that cascades like deleteMessage.
DeleteSingleCascading(s, targetIndex, outcome, code) ==
    DeleteApply(s, targetIndex, outcome, code)

\* deleteSingleMessage: the try/catch around the deleteSingleMessage request,
\* once the request has settled.
DeleteSingleApply(s, targetIndex, outcome, code) ==
    CASE outcome = "success" ->
            [s EXCEPT !.allMessages = RemoveAt(@, targetIndex)]
      [] outcome = "refused" -> s
      [] OTHER -> [s EXCEPT !.error = ErrCode(code, "DELETE_ERROR")]

\* deleteMessage / deleteSingleMessage sending the request without the
\* `if (isStreaming) await cancelStream()` before it.
DeleteCallNoCancel(op, targetIndex) ==
    /\ last' = Other
    /\ UNCHANGED abortVars
    /\ UNCHANGED <<state, turns, nextTurn, backendConvs, observedCancelled>>
    /\ IF \/ state.currentConversationId = NULL
          \/ targetIndex < 0 \/ targetIndex >= Len(state.allMessages)
       THEN UNCHANGED procs
       ELSE /\ Free(MsgSlot)
            /\ procs' = [procs EXCEPT ![MsgSlot] =
                   Proc(op, "deleting", targetIndex,
                        state.currentConversationId, 0)]

\* deleteMessage(targetIndex, cancelStream) and
\* deleteSingleMessage(targetIndex, cancelStream), op naming which: up to the
\* first await.
DeleteCall(op, targetIndex) ==
    /\ last' = Other
    /\ UNCHANGED abortVars
    /\ UNCHANGED <<state, turns, nextTurn, backendConvs, observedCancelled>>
    /\ IF \/ state.currentConversationId = NULL
          \/ targetIndex < 0 \/ targetIndex >= Len(state.allMessages)
       THEN UNCHANGED procs
       ELSE /\ Free(MsgSlot)
            /\ procs' = [procs EXCEPT ![MsgSlot] =
                   Proc(op, IF state.isStreaming THEN "cancel" ELSE "deleting",
                        targetIndex, state.currentConversationId, 0)]

DeleteMessage(targetIndex) == DeleteCall("delete", targetIndex)

DeleteSingleMessage(targetIndex) == DeleteCall("deleteSingle", targetIndex)

\* The deleteMessage / deleteSingleMessage request of operation p settles.
\* The backend's deleteMessage handler forwards whatever the history manager
\* answered; its deleteSingleMessage handler answers success: true or sends
\* an error, so that request is never refused.
DeleteSettled(p, outcome, code) ==
    /\ procs[p].op \in {"delete", "deleteSingle"}
    /\ procs[p].pc = "deleting"
    /\ outcome # "rejected" => code = NULL
    /\ procs[p].op = "deleteSingle" => outcome # "refused"
    /\ state' = IF procs[p].op = "delete"
                THEN DeleteApply(state, procs[p].idx, outcome, code)
                ELSE DeleteSingleApply(state, procs[p].idx, outcome, code)
    /\ procs' = [procs EXCEPT ![p] = NoProc]
    /\ last' = [Label(procs[p].op, outcome) EXCEPT
                   !.idx = procs[p].idx, !.pre = state.allMessages,
                   !.preCkpt = state.checkpoints, !.code = code]
    /\ UNCHANGED abortVars
    /\ UNCHANGED <<turns, nextTurn, backendConvs, observedCancelled>>

\* updateConversationAfterMessage after its setCustomMetadata requests
\* settled: the count it took goes into the conversation it found, or, one
\* request having failed, the failure is logged and nothing else happens.
UpdateSettled(t, ok) ==
    /\ turns[t].upd = "pending"
    /\ turns' = [turns EXCEPT ![t].upd = "settled"]
    /\ state' = IF ok THEN SetCount(state, turns[t].conv, turns[t].count)
                ELSE state
    /\ last' = Other
    /\ UNCHANGED abortVars
    /\ UNCHANGED <<procs, nextTurn, backendConvs, observedCancelled>>

\* clearMessages()
ClearMessages ==
    /\ state' = [state EXCEPT !.allMessages = <<>>, !.error = NULL,
                              !.streamingMessageId = NoId,
                              !.isWaitingForResponse = FALSE]
    /\ last' = Other
    /\ UNCHANGED abortVars
    /\ UNCHANGED <<procs, turns, nextTurn, backendConvs,
                   observedCancelled>>

\* contentToMessageEnhanced over a history of n messages: user and assistant
\* in turn, none streaming, with ids of their own.
History(n) ==
    [i \in 1..n |-> IF i % 2 = 1 THEN Msg(0 - i, "user", <<UserText>>, FALSE)
                    ELSE Msg(0 - i, "assistant", <<>>, FALSE)]

\* switchConversation(id, cancelStreamAndRejectTools): up to its first await;
\* the operation suspends in slot p.
SwitchConversation(id, p) ==
    /\ last' = Other
    /\ UNCHANGED abortVars
    /\ UNCHANGED <<turns, nextTurn, backendConvs,
                   observedCancelled>>
    /\ IF ~HasConv(state, id)
       THEN UNCHANGED <<state, procs>>
       ELSE /\ Free(p)
            /\ state' = SwitchCall(state, id, NULL).s
            /\ procs' = [procs EXCEPT ![p] = SwitchCall(state, id, NULL).pr]

\* loadHistory after conversation.getMessages settled, and loadCheckpoints up
\* to its checkpoint.getCheckpoints request.
HistorySettled(p, ok, n, code) ==
    /\ procs[p].op = "switch" /\ procs[p].pc = "history"
    /\ ~ok => n = 0
    /\ ok => code = NULL
    /\ LET s1 == IF ok THEN [state EXCEPT !.allMessages = History(n)]
                 ELSE [state EXCEPT !.error = ErrCode(code, "LOAD_ERROR")]
       IN IF s1.currentConversationId = NULL
          THEN /\ state' = ReleaseLock(
                              SetCount([s1 EXCEPT !.checkpoints = {}],
                                       procs[p].target, Len(s1.allMessages)),
                              procs[p].del)
               /\ procs' = [procs EXCEPT ![p] = NoProc]
               /\ last' = IF procs[p].del = NULL THEN Other
                          ELSE Returned(procs[p].del, "true", TRUE)
          ELSE /\ state' = s1
               /\ procs' = [procs EXCEPT ![p].pc = "checkpoints",
                                         ![p].conv = s1.currentConversationId]
               /\ last' = Other
    /\ UNCHANGED abortVars
    /\ UNCHANGED <<turns, nextTurn, backendConvs,
                   observedCancelled>>

\* loadCheckpoints after checkpoint.getCheckpoints settled (cps is empty when
\* the call failed or gave no list), and the end of switchConversation.
CheckpointsSettled(p, cps) ==
    /\ procs[p].op = "switch" /\ procs[p].pc = "checkpoints"
    /\ state' = ReleaseLock(
                    SetCount([state EXCEPT !.checkpoints = cps],
                             procs[p].target, Len(state.allMessages)),
                    procs[p].del)
    /\ procs' = [procs EXCEPT ![p] = NoProc]
    /\ last' = IF procs[p].del = NULL THEN Other
               ELSE Returned(procs[p].del, "true", TRUE)
    /\ UNCHANGED abortVars
    /\ UNCHANGED <<turns, nextTurn, backendConvs,
                   observedCancelled>>

\* deleteConversation after the backend deleted the conversation (or at once,
\* for an unpersisted one): the conversation leaves the list and, if it is
\* the current one, the first conversation left is switched to, or a new
\* conversation is begun when none is left.
RemoveConversation(s, id) ==
    LET s1 == [s EXCEPT !.conversations = SelectSeq(@, LAMBDA c : c.id # id)]
    IN IF s1.currentConversationId # id
       THEN [s |-> ReleaseLock(s1, id), pr |-> NoProc]
       ELSE IF s1.conversations # <<>>
       THEN SwitchCall(s1, s1.conversations[1].id, id)
       ELSE CreateNewCall(s1, id)

\* A deleteConversation that does not look at deletingConversationIds.
DeleteConversationNoLock(id, p) ==
    /\ UNCHANGED abortVars
    /\ UNCHANGED <<turns, nextTurn, backendConvs, observedCancelled>>
    /\ IF ~HasConv(state, id)
       THEN /\ UNCHANGED <<state, procs>>
            /\ last' = Returned(id, "false", FALSE)
       ELSE /\ Free(p)
            /\ LET s1 == [state EXCEPT !.deletingConversationIds = @ \cup {id}]
               IN IF ConvOf(state, id).isPersisted
                  THEN /\ state' = s1
                       /\ procs' = [procs EXCEPT ![p] =
                              [Proc("deleteConversation", "backend", 0, id, 0)
                                  EXCEPT !.del = id]]
                       /\ last' = Other
                  ELSE /\ state' = RemoveConversation(s1, id).s
                       /\ procs' = [procs EXCEPT ![p] =
                                       RemoveConversation(s1, id).pr]
                       /\ last' = IF procs'[p] = NoProc
                                  THEN Returned(id, "true",
                                                state.currentConversationId = id)
                                  ELSE Other

\* deleteConversation(id, switchConversationFn, createNewConversationFn): up
\* to its first await; the operation suspends in slot p.
DeleteConversation(id, p) ==
    /\ UNCHANGED abortVars
    /\ UNCHANGED <<turns, nextTurn, backendConvs, observedCancelled>>
    /\ IF ~HasConv(state, id) \/ id \in state.deletingConversationIds
       THEN /\ UNCHANGED <<state, procs>>
            /\ last' = Returned(id, "false", FALSE)
       ELSE /\ Free(p)
            /\ LET s1 == [state EXCEPT !.deletingConversationIds = @ \cup {id}]
               IN IF ConvOf(state, id).isPersisted
                  THEN /\ state' = s1
                       /\ procs' = [procs EXCEPT ![p] =
                              [Proc("deleteConversation", "backend", 0, id, 0)
                                  EXCEPT !.del = id]]
                       /\ last' = Other
                  ELSE /\ state' = RemoveConversation(s1, id).s
                       /\ procs' = [procs EXCEPT ![p] =
                                       RemoveConversation(s1, id).pr]
                       /\ last' = IF procs'[p] = NoProc
                                  THEN Returned(id, "true",
                                                state.currentConversationId = id)
                                  ELSE Other

\* The conversation.deleteConversation request of operation p settles: the
\* backend deleted the conversation, or the request rejects and the catch and
\* finally blocks run.
DeleteConversationSettled(p, ok, code) ==
    /\ procs[p].op = "deleteConversation" /\ procs[p].pc = "backend"
    /\ ok => code = NULL
    /\ UNCHANGED abortVars
    /\ UNCHANGED <<turns, nextTurn, observedCancelled>>
    /\ LET id == procs[p].del
       IN IF ok
          THEN /\ backendConvs' = backendConvs \ {id}
               /\ state' = RemoveConversation(state, id).s
               /\ procs' = [procs EXCEPT ![p] = RemoveConversation(state, id).pr]
               /\ last' = IF procs'[p] = NoProc
                          THEN Returned(id, "true",
                                        state.currentConversationId = id)
                          ELSE Other
          ELSE /\ state' = ReleaseLock(
                       [state EXCEPT !.error = ErrCode(code, "DELETE_ERROR")],
                       id)
               /\ procs' = [procs EXCEPT ![p] = NoProc]
               /\ last' = Returned(id, "false", FALSE)
               /\ UNCHANGED backendConvs

InitState ==
    [currentConversationId |-> NULL, conversations |-> <<>>,
     allMessages |-> <<>>, checkpoints |-> {}, streamingMessageId |-> NoId,
     isLoading |-> FALSE, isStreaming |-> FALSE,
     isWaitingForResponse |-> FALSE, error |-> NULL,
     deletingConversationIds |-> {}, transient |-> {}]

\* The store once its first loadConversations() has settled: the list holds
\* the conversations the backend has persisted.
InitChat ==
    /\ backendConvs \in {{}, {"c1"}}
    /\ state = [InitState EXCEPT !.conversations =
                    IF backendConvs = {} THEN <<>>
                    ELSE <<[id |-> "c1", isPersisted |-> TRUE,
                            title |-> Hello]>>]
    /\ procs = [p \in 1..MaxProcs |-> NoProc]
    /\ turns = [t \in 1..MaxTurns |-> NoTurn]
    /\ nextTurn = 1
    /\ observedCancelled = {}
    /\ last = Label("init", "")

NextChat ==
    \/ \E text \in {Blank, Hello}, hasAtt \in BOOLEAN :
          \* (attachments under a blank text are sent in NextOverlap)
          /\ IsBlank(text) => ~hasAtt
          /\ SendMessage(text, hasAtt)
    \/ \E p \in 1..MaxProcs, ok \in BOOLEAN : CreateSettled(p, ok)
    \/ \E p \in 1..MaxProcs : BackendStart(p)
    \/ \E p \in 1..MaxProcs, code \in ErrCodes : DispatchRejected(p, code)
    \/ \E p \in 1..MaxProcs : DispatchResolved(p)
    \/ \E t \in 1..MaxTurns, kind \in Emitted, idx \in CkptIdx :
          BackendEmit(t, kind, idx)
    \/ \E t \in 1..MaxTurns, type \in {"complete", "error"}, content \in BOOLEAN :
          BackendFinish(t, type, content)
    \/ \E t \in 1..MaxTurns : BackendStale(t)
    \/ \E p \in 1..MaxProcs : BackendCancel(p)
    \/ \E p \in 1..MaxProcs : CancelAcked(p)
    \/ CancelStream
    \/ \E index \in -1..Len(state.allMessages) : RetryFromMessage(index, MsgSlot)
    \/ \E p \in 1..MaxProcs, ok \in BOOLEAN : RetryDeleteSettled(p, ok)
    \/ RetryAfterError
    \/ \E index \in -1..Len(state.allMessages), blank \in BOOLEAN :
          EditAndRetry(index, blank)
    \/ ClearMessages
    \/ \E id \in ConvIds : SwitchConversation(id, MsgSlot)
    \/ \E p \in 1..MaxProcs, ok \in BOOLEAN, n \in 0..MaxHist, code \in ErrCodes :
          HistorySettled(p, ok, n, code)
    \/ \E p \in 1..MaxProcs, cps \in {{}} \cup {{i} : i \in CkptIdx} :
          CheckpointsSettled(p, cps)

Init == InitAbort /\ InitChat

SpecAbort == Init /\ [][NextAbort]_vars

SpecReentrant == Init /\ [][NextReentrant]_vars

SpecChat == Init /\ [][NextChat]_vars

\* sendMessage called while a switchConversation is suspended, and the other
\* way round.
NextOverlap ==
    \/ \E text \in Texts, hasAtt \in BOOLEAN : SendMessage(text, hasAtt)
    \/ \E p \in 1..MaxProcs, ok \in BOOLEAN : CreateSettled(p, ok)
    \/ \E p \in 1..MaxProcs : BackendStart(p)
    \/ \E p \in 1..MaxProcs, code \in ErrCodes : DispatchRejected(p, code)
    \/ \E p \in 1..MaxProcs : DispatchResolved(p)
    \/ \E t \in 1..MaxTurns, type \in {"complete", "error"}, content \in BOOLEAN :
          BackendFinish(t, type, content)
    \/ \E p \in 1..MaxProcs : BackendCancel(p)
    \/ \E p \in 1..MaxProcs : CancelAcked(p)
    \/ \E id \in ConvIds : SwitchConversation(id, ConvSlot)
    \/ \E p \in 1..MaxProcs, ok \in BOOLEAN, n \in 0..MaxHist, code \in ErrCodes :
          HistorySettled(p, ok, n, code)
    \/ \E p \in 1..MaxProcs, cps \in {{}} \cup {{i} : i \in CkptIdx} :
          CheckpointsSettled(p, cps)

SpecOverlap == Init /\ [][NextOverlap]_vars

\* The turn-starting operations, a retryFromMessage also called while another
\* operation is suspended, on a new conversation or on a loaded history.
NextTurns ==
    \/ \E text \in {Blank, Hello} : SendMessage(text, FALSE)
    \/ \E p \in 1..MaxProcs : CreateSettled(p, TRUE)
    \/ \E p \in 1..MaxProcs : BackendStart(p)
    \/ \E p \in 1..MaxProcs : DispatchRejected(p, NULL)
    \/ \E p \in 1..MaxProcs : DispatchResolved(p)
    \/ \E t \in 1..MaxTurns, type \in {"complete", "error"} :
          BackendFinish(t, type, TRUE)
    \/ \E p \in 1..MaxProcs : BackendCancel(p)
    \/ \E p \in 1..MaxProcs : CancelAcked(p)
    \/ \E index \in 0..Len(state.allMessages), p \in 1..MaxProcs :
          RetryFromMessage(index, p)
    \/ \E p \in 1..MaxProcs, ok \in BOOLEAN : RetryDeleteSettled(p, ok)
    \/ RetryAfterError
    \/ \E index \in 0..Len(state.allMessages) : EditAndRetry(index, FALSE)
    \/ \E id \in ConvIds : SwitchConversation(id, MsgSlot)
    \/ \E p \in 1..MaxProcs, n \in 1..MaxHist : HistorySettled(p, TRUE, n, NULL)
    \/ \E p \in 1..MaxProcs : CheckpointsSettled(p, {})

SpecTurns == Init /\ [][NextTurns]_vars

\* deleteMessage and deleteSingleMessage, on a loaded history or on a turn,
\* clearMessages at any point.
NextDelete ==
    \/ SendMessage(Hello, FALSE)
    \/ \E p \in 1..MaxProcs : CreateSettled(p, TRUE)
    \/ \E p \in 1..MaxProcs : BackendStart(p)
    \/ \E p \in 1..MaxProcs : DispatchResolved(p)
    \/ \E t \in 1..MaxTurns : BackendFinish(t, "complete", TRUE)
    \/ \E p \in 1..MaxProcs : BackendCancel(p)
    \/ \E p \in 1..MaxProcs : CancelAcked(p)
    \/ \E id \in ConvIds : SwitchConversation(id, MsgSlot)
    \/ \E p \in 1..MaxProcs, n \in 1..MaxHist : HistorySettled(p, TRUE, n, NULL)
    \/ \E p \in 1..MaxProcs, cps \in {{}} \cup {{i} : i \in CkptIdx} :
          CheckpointsSettled(p, cps)
    \/ \E index \in -1..Len(state.allMessages) : DeleteMessage(index)
    \/ \E index \in -1..Len(state.allMessages) : DeleteSingleMessage(index)
    \/ \E p \in 1..MaxProcs, outcome \in Outcomes, code \in ErrCodes :
          DeleteSettled(p, outcome, code)
    \/ ClearMessages

SpecDelete == Init /\ [][NextDelete]_vars

\* The store with its conversation list loaded and no conversation opened:
\* c1 is persisted; c2 is persisted or is one of the unpersisted
\* conversations loadConversations keeps in the list.
InitConv ==
    /\ backendConvs \in {{"c1"}, {"c1", "c2"}}
    /\ state = [InitState EXCEPT !.conversations =
                    <<[id |-> "c1", isPersisted |-> TRUE, title |-> Hello],
                      [id |-> "c2", isPersisted |-> "c2" \in backendConvs,
                       title |-> Hello]>>]
    /\ procs = [p \in 1..MaxProcs |-> NoProc]
    /\ turns = [t \in 1..MaxTurns |-> NoTurn]
    /\ nextTurn = 1
    /\ observedCancelled = {}
    /\ last = Label("init", "")

\* switchConversation and deleteConversation, the latter also called while
\* another one is suspended, with a turn running or not.
NextConv ==
    \/ state.currentConversationId # NULL /\ SendMessage(Hello, FALSE)
    \/ \E p \in 1..MaxProcs : BackendStart(p)
    \/ \E p \in 1..MaxProcs : DispatchResolved(p)
    \/ \E p \in 1..MaxProcs : BackendCancel(p)
    \/ \E p \in 1..MaxProcs : CancelAcked(p)
    \/ \E id \in ConvIds : SwitchConversation(id, MsgSlot)
    \/ \E p \in 1..MaxProcs, ok \in BOOLEAN :
          HistorySettled(p, ok, IF ok THEN MaxHist ELSE 0, NULL)
    \/ \E p \in 1..MaxProcs : CheckpointsSettled(p, {})
    \/ \E id \in ConvIds, p \in 1..MaxProcs : DeleteConversation(id, p)
    \/ \E p \in 1..MaxProcs, ok \in BOOLEAN, code \in ErrCodes :
          DeleteConversationSettled(p, ok, code)

InitStore == InitAbort /\ InitConv

SpecConv == InitStore /\ [][NextConv]_vars

\* NextConv with a cancel callback that may fail.
NextLock ==
    \/ state.currentConversationId # NULL /\ SendMessage(Hello, FALSE)
    \/ \E p \in 1..MaxProcs : BackendStart(p)
    \/ \E p \in 1..MaxProcs : DispatchResolved(p)
    \/ \E p \in 1..MaxProcs : BackendCancel(p)
    \/ \E p \in 1..MaxProcs : CancelAcked(p)
    \/ \E p \in 1..MaxProcs, code \in ErrCodes : CancelRejected(p, code)
    \/ \E id \in ConvIds : SwitchConversation(id, MsgSlot)
    \/ \E p \in 1..MaxProcs, ok \in BOOLEAN :
          HistorySettled(p, ok, IF ok THEN MaxHist ELSE 0, NULL)
    \/ \E p \in 1..MaxProcs : CheckpointsSettled(p, {})
    \/ \E id \in ConvIds, p \in 1..MaxProcs : DeleteConversation(id, p)
    \/ \E p \in 1..MaxProcs, ok \in BOOLEAN, code \in ErrCodes :
          DeleteConversationSettled(p, ok, code)

SpecLock == InitStore /\ [][NextLock]_vars

\* switchConversation called again while the loads of an earlier call are
\* pending.
NextLoads ==
    \/ \E id \in ConvIds, p \in 1..MaxProcs : SwitchConversation(id, p)
    \/ \E p \in 1..MaxProcs, ok \in BOOLEAN, n \in 0..MaxHist, code \in ErrCodes :
          HistorySettled(p, ok, n, code)
    \/ \E p \in 1..MaxProcs, cps \in {{}} \cup {{i} : i \in CkptIdx} :
          CheckpointsSettled(p, cps)

SpecLoads == InitStore /\ [][NextLoads]_vars

\* switchConversation called while deleteMessage, deleteSingleMessage or
\* retryFromMessage waits for the backend.
NextAway ==
    \/ \E id \in ConvIds : SwitchConversation(id, ConvSlot)
    \/ \E p \in 1..MaxProcs, n \in 1..MaxHist : HistorySettled(p, TRUE, n, NULL)
    \/ \E p \in 1..MaxProcs, cps \in {{}} \cup {{i} : i \in CkptIdx} :
          CheckpointsSettled(p, cps)
    \/ \E index \in 0..Len(state.allMessages) : DeleteMessage(index)
    \/ \E index \in 0..Len(state.allMessages) : DeleteSingleMessage(index)
    \/ \E p \in 1..MaxProcs, outcome \in Outcomes :
          DeleteSettled(p, outcome, NULL)
    \/ \E index \in 0..Len(state.allMessages) : RetryFromMessage(index, MsgSlot)
    \/ \E p \in 1..MaxProcs, ok \in BOOLEAN : RetryDeleteSettled(p, ok)
    \/ \E p \in 1..MaxProcs : BackendCancel(p)
    \/ \E p \in 1..MaxProcs : CancelAcked(p)

SpecAway == InitStore /\ [][NextAway]_vars

\* The store with its conversation list loaded: one persisted conversation,
\* its messageCount the one its metadata gave (0 when it had none).
InitCount ==
    /\ InitAbort
    /\ backendConvs = {"c1"}
    /\ state = [InitState EXCEPT !.conversations =
                    <<[id |-> "c1", isPersisted |-> TRUE, title |-> Hello,
                       messageCount |-> 0]>>]
    /\ procs = [p \in 1..MaxProcs |-> NoProc]
    /\ turns = [t \in 1..MaxTurns |-> NoTurn]
    /\ nextTurn = 1
    /\ observedCancelled = {}
    /\ last = Label("init", "")

\* Turns of an opened conversation up to their `complete` event, and the
\* updateConversationAfterMessage that event starts.
NextCount ==
    \/ \E id \in ConvIds : SwitchConversation(id, MsgSlot)
    \/ \E p \in 1..MaxProcs, n \in 0..MaxHist : HistorySettled(p, TRUE, n, NULL)
    \/ \E p \in 1..MaxProcs : CheckpointsSettled(p, {})
    \/ state.currentConversationId # NULL /\ SendMessage(Hello, FALSE)
    \/ \E p \in 1..MaxProcs : BackendStart(p)
    \/ \E p \in 1..MaxProcs : DispatchResolved(p)
    \/ \E t \in 1..MaxTurns, kind \in Emitted, idx \in CkptIdx :
          BackendEmit(t, kind, idx)
    \/ \E t \in 1..MaxTurns, content \in BOOLEAN :
          BackendFinish(t, "complete", content)
    \/ \E t \in 1..MaxTurns, ok \in BOOLEAN : UpdateSettled(t, ok)

SpecCount == InitCount /\ [][NextCount]_vars

SpecTool == InitStore /\ [][NextTool]_vars

SpecEngine == InitStore /\ [][NextEngine]_vars

\* The four message operations that cancel first, around one conversation.
NextOrder ==
    \/ SendMessage(Hello, FALSE)
    \/ \E p \in 1..MaxProcs : CreateSettled(p, TRUE)
    \/ \E p \in 1..MaxProcs : BackendStart(p)
    \/ \E p \in 1..MaxProcs : DispatchResolved(p)
    \/ \E t \in 1..MaxTurns : BackendFinish(t, "complete", TRUE)
    \/ \E p \in 1..MaxProcs : BackendCancel(p)
    \/ \E p \in 1..MaxProcs : CancelAcked(p)
    \/ \E index \in -1..Len(state.allMessages) : RetryFromMessage(index, MsgSlot)
    \/ \E p \in 1..MaxProcs, ok \in BOOLEAN : RetryDeleteSettled(p, ok)
    \/ \E index \in -1..Len(state.allMessages) : EditAndRetry(index, FALSE)
    \/ \E index \in -1..Len(state.allMessages) : DeleteMessage(index)
    \/ \E index \in -1..Len(state.allMessages) : DeleteSingleMessage(index)
    \/ \E p \in 1..MaxProcs, outcome \in Outcomes, code \in ErrCodes :
          DeleteSettled(p, outcome, code)
    \/ ClearMessages
    \/ \E t \in 1..MaxTurns : ToolActivity(t)

SpecOrder == Init /\ [][NextOrder]_vars

\* ------------------------------------------------------------------ claims
\* C1: in every state reachable by create/get/cancel/delete/cancelAll the Map
\* holds at most one entry per key and size is the number of keys that have
\* an entry; create(k) on a key that has an entry makes get(k) the new
\* controller and leaves every signal as it was, and a controller replaced by
\* create is never aborted, by no later cancel(k) or cancelAll either.
C1_OneControllerPerKey ==
    /\ \A i, j \in 1..Len(controllers) :
          controllers[i].key = controllers[j].key => i = j
    /\ size = Cardinality(MapKeys(controllers))
    /\ \A r \in replaced : r.ctrl \notin aborted
    /\ lastCall.op = "create" =>
          /\ MapGet(controllers, lastCall.key) = lastCall.ret
          /\ lastCall.ret \notin MapCtrls(lastCall.pre)
          /\ aborted = lastCall.preAborted

\* A cancelAll ran on a registry holding a key whose controller had been
\* replaced by create, and the replaced controller is still not aborted.
C1_Witness ==
    /\ lastCall.op = "cancelAll"
    /\ \E r \in replaced :
          /\ MapHas(lastCall.pre, r.key)
          /\ MapGet(lastCall.pre, r.key) \in aborted
          /\ r.ctrl \notin aborted

\* C2: cancel(k) returns true exactly when k has an entry; it then aborts that
\* entry's controller and removes the entry, touching no other key; a second
\* cancel(k) right after the first returns false and changes nothing, so the
\* two calls shrink the registry by at most one.
C2_CancelIdempotent ==
    lastCall.op = "cancel" =>
        LET k == lastCall.key
            pre == lastCall.pre
        IN /\ lastCall.ret = MapHas(pre, k)
           /\ lastCall.ret =>
                 /\ MapGet(pre, k) \in aborted
                 /\ aborted = lastCall.preAborted \cup {MapGet(pre, k)}
                 /\ ~MapHas(controllers, k)
                 /\ Len(controllers) = Len(pre) - 1
           /\ ~lastCall.ret =>
                 /\ controllers = pre
                 /\ aborted = lastCall.preAborted
           /\ \A k2 \in Keys \ {k} : MapGet(controllers, k2) = MapGet(pre, k2)
           /\ (prevCall.op = "cancel" /\ prevCall.key = k) =>
                 /\ lastCall.ret = FALSE
                 /\ controllers = pre
                 /\ aborted = lastCall.preAborted
                 /\ Len(prevCall.pre) - Len(controllers) <= 1
                 /\ \A k2 \in Keys \ {k} :
                       MapGet(controllers, k2) = MapGet(prevCall.pre, k2)

\* cancel(k) was called twice in succession on a key that had an entry, while
\* another key had one too.
C2_Witness ==
    /\ lastCall.op = "cancel"
    /\ prevCall.op = "cancel"
    /\ prevCall.key = lastCall.key
    /\ prevCall.ret = TRUE
    /\ lastCall.ret = FALSE
    /\ Len(controllers) = 1
    /\ Len(prevCall.pre) = 2

\* C3: delete(k) removes the entry of k, aborts no controller and leaves the
\* entries of all other keys as they were; on an absent key it changes nothing.
C3_DeleteFrame ==
    lastCall.op = "delete" =>
        /\ ~MapHas(controllers, lastCall.key)
        /\ aborted = lastCall.preAborted
        /\ controllers = MapDelete(lastCall.pre, lastCall.key)
        /\ \A k2 \in Keys \ {lastCall.key} :
              MapGet(controllers, k2) = MapGet(lastCall.pre, k2)
        /\ ~MapHas(lastCall.pre, lastCall.key) => controllers = lastCall.pre

\* delete(k) removed a live (not aborted) controller while another key stayed.
C3_Witness ==
    /\ lastCall.op = "delete"
    /\ MapHas(lastCall.pre, lastCall.key)
    /\ MapGet(lastCall.pre, lastCall.key) \notin aborted
    /\ Len(controllers) = 1

\* C4: cancelAll aborts every controller tracked when it is called, passes
\* once through the notification statement for each tracked key in Map order,
\* and leaves the registry empty; with a view, every key whose send does not
\* throw is notified whatever the other sends did; cancelAll never throws.
C4_CancelAllBestEffort ==
    lastCall.op = "cancelAll" =>
        LET pre == lastCall.pre
        IN /\ aborted = lastCall.preAborted \cup MapCtrls(pre)
           /\ lastCall.attempts = [i \in 1..Len(pre) |-> pre[i].key]
           /\ lastCall.posted =
                 IF lastCall.view
                 THEN SelectSeq(lastCall.attempts,
                                LAMBDA k : k \notin lastCall.failing)
                 ELSE <<>>
           /\ controllers = <<>>
           /\ size = 0
           /\ ~lastCall.threw

\* cancelAll ran with a view on two tracked keys, the send for the first one
\* threw, and the second was aborted and notified all the same.
C4_Witness ==
    /\ lastCall.op = "cancelAll"
    /\ lastCall.view
    /\ Len(lastCall.pre) = 2
    /\ lastCall.pre[1].key \in lastCall.failing
    /\ lastCall.pre[2].key \notin lastCall.failing
    /\ lastCall.posted = <<lastCall.pre[2].key>>
    /\ lastCall.pre[2].ctrl \in aborted
    /\ lastCall.pre[2].ctrl \notin lastCall.preAborted


\* The positions of the messages that have streaming = true.
Streaming(s) == {i \in 1..Len(s.allMessages) : s.allMessages[i].streaming}

\* C5: in every reachable state at most one message of allMessages has
\* streaming = true, whatever the sequence of stream events and of
\* sendMessage, retryFromMessage, retryAfterError and editAndRetry, turns whose
\* dispatch failed and turns started after an error included.
C5_AtMostOneStreaming == Cardinality(Streaming(state)) <= 1

\* C6: in every reachable state a message has streaming = true only if its id
\* is streamingMessageId, and a non-null streamingMessageId names a message of
\* allMessages; so no message keeps streaming = true once streamingMessageId
\* has been reset to null.
C6_StreamingIsTarget ==
    /\ \A i \in Streaming(state) :
          state.allMessages[i].id = state.streamingMessageId
    /\ state.streamingMessageId # NoId => HasStreamingTarget(state)

\* C7: a `chunk` event handled while streamingMessageId is null changes
\* nothing of the store: the message list and the content of every message
\* stay as they were.
C7_ChunkWithoutTargetIsNoOp ==
    [][(/\ last'.op = "deliver"
        /\ last'.arg = "chunk"
        /\ state.streamingMessageId = NoId) => state' = state]_vars

\* A fragment of a turn whose cancellation the store has seen was handled with
\* its payload, for the current conversation, while streamingMessageId was
\* null, and a message still holds what that turn had streamed before.
C7_Witness ==
    /\ last.op = "deliver" /\ last.arg = "chunk" /\ last.content
    /\ last.conv = state.currentConversationId
    /\ last.sidNull
    /\ last.turn \in observedCancelled
    /\ \E i \in 1..Len(state.allMessages) :
          state.allMessages[i].content = <<last.turn>>

\* How many fragments of turn t the messages of s hold.
RECURSIVE Count(_, _)
Count(seq, t) ==
    IF seq = <<>> THEN 0
    ELSE (IF Head(seq) = t THEN 1 ELSE 0) + Count(Tail(seq), t)

RECURSIVE Applied(_, _)
Applied(msgs, t) ==
    IF msgs = <<>> THEN 0
    ELSE Count(Head(msgs).content, t) + Applied(Tail(msgs), t)

\* C8: once the store has seen the cancellation of a turn, no fragment of
\* that turn is applied to any message any more, also after a new turn of the
\* same conversation has opened its placeholder.
C8_NoChunkAfterCancel ==
    [][\A t \in observedCancelled :
          Applied(state'.allMessages, t) <= Applied(state.allMessages, t)]_vars

\* C9: an event of any kind whose conversationId is not currentConversationId
\* leaves the whole store as it was.
C9_OtherConversationIsNoOp ==
    [][(/\ last'.op = "deliver"
        /\ last'.conv # state.currentConversationId) => state' = state]_vars

\* A fragment with its payload was handled for a conversation that is not the
\* current one while the current one had a streaming message.
C9_Witness ==
    /\ last.op = "deliver" /\ last.arg = "chunk" /\ last.content
    /\ last.conv # state.currentConversationId
    /\ ~last.sidNull
    /\ state.streamingMessageId # NoId
    /\ HasStreamingTarget(state)

\* C10: sendMessage with a blank text and no attachment, or called while
\* isWaitingForResponse is true, changes nothing of the store and sends
\* nothing to the backend.
C10_SendMessageRejects ==
    [][\A text \in Texts, hasAtt \in BOOLEAN :
          (/\ SendMessage(text, hasAtt)
           /\ (IsBlank(text) /\ ~hasAtt) \/ state.isWaitingForResponse)
          => /\ state' = state
             /\ procs' = procs
             /\ turns' = turns]_vars


\* C11: when the conversation.createConversation request of a sendMessage
\* called with no current conversation succeeds, exactly one conversation is
\* added to the list and to the backend, its title is the message text, it is
\* the current one, and the message list is the user message followed by the
\* streaming placeholder streamingMessageId names, with isWaitingForResponse
\* true, as the chatStream request goes out.
C11_SendCreatesConversation ==
    [][\A p \in 1..MaxProcs :
          (/\ procs[p].op = "send" /\ procs[p].pc = "create"
           /\ CreateSettled(p, TRUE))
          => /\ Len(state'.conversations) = Len(state.conversations) + 1
             /\ procs[p].conv \notin backendConvs
             /\ backendConvs' = backendConvs \cup {procs[p].conv}
             /\ Head(state'.conversations).id = procs[p].conv
             /\ Head(state'.conversations).title = procs[p].text
             /\ state'.currentConversationId = procs[p].conv
             /\ Len(state'.allMessages) = 2
             /\ state'.allMessages[1].role = "user"
             /\ ~state'.allMessages[1].streaming
             /\ state'.allMessages[2].role = "assistant"
             /\ state'.allMessages[2].streaming
             /\ state'.allMessages[2].id = state'.streamingMessageId
             /\ state'.isWaitingForResponse
             /\ procs'[p].pc = "dispatch"]_vars


\* C12 as stated: whenever a turn request rejects, the operation ends with
\* isLoading, isStreaming and isWaitingForResponse false and
\* streamingMessageId null, the error slot holds the failure's code or the
\* operation's default code, and the message list is as it was.
C12_DispatchFailure ==
    [][\A p \in 1..MaxProcs, code \in ErrCodes :
          DispatchRejected(p, code)
          => /\ ~state'.isLoading
             /\ ~state'.isStreaming
             /\ ~state'.isWaitingForResponse
             /\ state'.streamingMessageId = NoId
             /\ state'.error = ErrCode(code, DefaultCode(procs[p].op))
             /\ state'.allMessages = state.allMessages]_vars

\* C12, amended: when a turn request rejects, isLoading becomes false and the
\* message list is as it was; if isStreaming is still true at that moment,
\* isStreaming and isWaitingForResponse become false, streamingMessageId null
\* and the error slot holds the failure's code or the operation's default
\* code; if isStreaming is already false, nothing but isLoading changes.
C12_DispatchFailureWhileStreaming ==
    [][\A p \in 1..MaxProcs, code \in ErrCodes :
          DispatchRejected(p, code)
          => /\ ~state'.isLoading
             /\ state'.allMessages = state.allMessages
             /\ state.isStreaming =>
                   /\ ~state'.isStreaming
                   /\ ~state'.isWaitingForResponse
                   /\ state'.streamingMessageId = NoId
                   /\ state'.error = ErrCode(code, DefaultCode(procs[p].op))
             /\ ~state.isStreaming =>
                   state' = [state EXCEPT !.isLoading = FALSE]]_vars

\* An editAndRetry whose request was rejected without a code has ended: the
\* default code is in the error slot, the flags are down, and the edited
\* message and the placeholder are still in the list.
C12_Witness ==
    /\ state.error = "EDIT_RETRY_ERROR"
    /\ ~state.isLoading /\ ~state.isStreaming /\ ~state.isWaitingForResponse
    /\ state.streamingMessageId = NoId
    /\ Len(state.allMessages) >= 2
    /\ state.allMessages[Len(state.allMessages) - 1].content = <<EditedText>>
    /\ state.allMessages[Len(state.allMessages)].role = "assistant"
    /\ \A p \in 1..MaxProcs : procs[p] = NoProc


\* The operations that are preparing or have sent a turn request for
\* conversation c and have not ended.
TurnProcs(c) ==
    {q \in 1..MaxProcs :
        /\ procs[q].op \in {"send", "retry", "retryAfterError", "edit"}
        /\ procs[q].pc \in {"delete", "dispatch"}
        /\ procs[q].conv = c}

C14_RetryTruncates ==
    (last.op = "truncate" /\ last.arg = "retry")
    => /\ Len(state.allMessages) = last.idx
       /\ state.allMessages = SubSeq(last.pre, 1, last.idx)
       /\ state.checkpoints = {c \in last.preCkpt : c < last.idx}


\* C15: once editAndRetry(i, newText) has cut the list, messages 0..i-1 are
\* those of the list it found, message i is the one it found with the new
\* content, nothing of the old list follows it, the new streaming placeholder
\* stands right after it at index i+1, and the checkpoints left are exactly
\* those it found with an index below i.
C15_EditTruncates ==
    (last.op = "truncate" /\ last.arg = "edit")
    => LET i == last.idx
       IN /\ i < Len(last.pre)
          /\ Len(state.allMessages) = i + 2
          /\ SubSeq(state.allMessages, 1, i) = SubSeq(last.pre, 1, i)
          /\ state.allMessages[i + 1] =
                [last.pre[i + 1] EXCEPT !.content = <<EditedText>>]
          /\ state.allMessages[i + 2] =
                Msg(state.streamingMessageId, "assistant", <<>>, TRUE)
          /\ state.checkpoints = {c \in last.preCkpt : c < i}

\* C16: when a deleteMessage(index) request settles with success, the list is
\* cut to the messages before index (slice(0, index) of the list the response
\* finds) and the checkpoints at or after index are removed; when it settles
\* with success = false or rejects, the list and the checkpoints are exactly
\* those the response found, and a rejection leaves its code in the error
\* slot, DELETE_ERROR when it carries none.
C16_DeleteOnlyOnSuccess ==
    last.op = "delete" =>
        /\ last.arg = "success" =>
              /\ state.allMessages =
                    SubSeq(last.pre, 1, IF last.idx < Len(last.pre)
                                        THEN last.idx ELSE Len(last.pre))
              /\ Len(state.allMessages) <= last.idx
              /\ state.checkpoints = {c \in last.preCkpt : c < last.idx}
        /\ last.arg # "success" =>
              /\ state.allMessages = last.pre
              /\ state.checkpoints = last.preCkpt
        /\ last.arg = "rejected" =>
              state.error = IF last.code = NULL THEN "DELETE_ERROR"
                            ELSE last.code

\* A deleteMessage request rejected without a code, on a list that has the
\* message at index and a checkpoint at or after it: both are kept.
C16_Witness ==
    /\ last.op = "delete" /\ last.arg = "rejected" /\ last.code = NULL
    /\ last.idx < Len(last.pre)
    /\ \E c \in last.preCkpt : c >= last.idx
    /\ state.allMessages = last.pre
    /\ state.checkpoints = last.preCkpt
    /\ state.error = "DELETE_ERROR"

InFlight(id) == {p \in 1..MaxProcs : procs[p].del = id}

\* C18 (as stated): while a deleteConversation(id) for a persisted
\* conversation is suspended, a second deleteConversation(id) sends no
\* request and changes nothing (it returns false), so at most one
\* conversation.deleteConversation request for id is pending; and when the
\* request of the first settles, the conversation leaves the list.
C18_ConcurrentDeleteOnce ==
    /\ [](\A id \in ConvIds : Cardinality(InFlight(id)) <= 1)
    /\ [][/\ \A id \in ConvIds, q \in 1..MaxProcs :
               (InFlight(id) # {} /\ DeleteConversation(id, q)) =>
                   /\ state' = state /\ procs' = procs
                   /\ backendConvs' = backendConvs
                   /\ last'.arg = "false"
          /\ \A p \in 1..MaxProcs :
               (/\ last.op = "deleteConversation" /\ last.arg = "false"
                /\ last.conv = procs[p].del
                /\ \E ok \in BOOLEAN, code \in ErrCodes :
                       DeleteConversationSettled(p, ok, code)) =>
                   /\ HasConv(state, procs[p].del)
                   /\ ~HasConv(state', procs[p].del)]_vars

\* C18 (amended): as above, but the conversation leaves the list, and the
\* backend's store, exactly when the request succeeded; when the request
\* rejects, the list keeps the conversation, the error slot takes the
\* failure and the lock is released.
C18_ConcurrentDeleteOnceIfDeleted ==
    /\ [](\A id \in ConvIds : Cardinality(InFlight(id)) <= 1)
    /\ [](\A id \in ConvIds :
             InFlight(id) # {} => id \in state.deletingConversationIds)
    /\ [][/\ \A id \in ConvIds, q \in 1..MaxProcs :
               (InFlight(id) # {} /\ DeleteConversation(id, q)) =>
                   /\ state' = state /\ procs' = procs
                   /\ backendConvs' = backendConvs
                   /\ last'.arg = "false"
          /\ \A p \in 1..MaxProcs :
               /\ DeleteConversationSettled(p, TRUE, NULL) =>
                     /\ HasConv(state, procs[p].del)
                     /\ ~HasConv(state', procs[p].del)
                     /\ procs[p].del \notin backendConvs'
               /\ (\E code \in ErrCodes :
                      DeleteConversationSettled(p, FALSE, code)) =>
                     /\ state'.conversations = state.conversations
                     /\ backendConvs' = backendConvs
                     /\ state'.error # NULL
                     /\ procs[p].del \notin state'.deletingConversationIds
                     /\ last'.arg = "false"]_vars

\* A second deleteConversation(id) was turned away by the lock while the
\* request of the first is pending.
C18_Witness ==
    /\ last.op = "deleteConversation" /\ last.arg = "false"
    /\ HasConv(state, last.conv)
    /\ last.conv \in state.deletingConversationIds
    /\ \E p \in 1..MaxProcs :
          /\ procs[p].op = "deleteConversation" /\ procs[p].pc = "backend"
          /\ procs[p].del = last.conv

\* C19: a conversation the backend still has is in the list (the backend's
\* data goes first); and when a deleteConversation(id) that found id to be
\* the current conversation returns true, currentConversationId is not id:
\* it is the first conversation of the list, or, the list being empty, null
\* with an empty message list.
C19_DeleteLeavesCurrent ==
    /\ \A id \in backendConvs : HasConv(state, id)
    /\ (last.op = "deleteConversation" /\ last.arg = "true" /\ last.current) =>
          /\ state.currentConversationId # last.conv
          /\ IF state.conversations # <<>>
             THEN state.currentConversationId = state.conversations[1].id
             ELSE /\ state.currentConversationId = NULL
                  /\ state.allMessages = <<>>

\* What switchConversation(id) leaves behind its clearing block.
Switched(s, id) ==
    /\ s.currentConversationId = id
    /\ ~s.isLoading /\ ~s.isStreaming /\ ~s.isWaitingForResponse
    /\ s.streamingMessageId = NoId
    /\ s.error = NULL

\* C20: switchConversation(id) for an id the list does not have changes
\* nothing and cancels nothing. For an id the list has: called with a turn
\* active it changes no store state until its cancel request has resolved;
\* the step that follows the cancel, or the call itself when no turn is
\* active, leaves currentConversationId = id, the three flags false,
\* streamingMessageId null and the error slot empty, and goes on to load
\* history and checkpoints exactly when the conversation is persisted.
C20_SwitchConversation ==
    [][/\ \A id \in ConvIds :
           SwitchConversation(id, MsgSlot) =>
               IF ~HasConv(state, id)
               THEN /\ state' = state /\ procs' = procs /\ turns' = turns
                    /\ aborted' = aborted
               ELSE IF state.isWaitingForResponse \/ state.isStreaming
               THEN /\ state' = state
                    /\ procs'[MsgSlot].pc = "cancel"
               ELSE /\ Switched(state', id)
                    /\ IF ConvOf(state, id).isPersisted
                       THEN procs'[MsgSlot].pc = "history"
                       ELSE /\ procs'[MsgSlot] = NoProc
                            /\ state'.allMessages = <<>>
                            /\ state'.checkpoints = {}
       /\ \A p \in 1..MaxProcs :
           (procs[p].op = "switch" /\ CancelAcked(p)) =>
               /\ Switched(state', procs[p].target)
               /\ IF procs[p].persisted
                  THEN procs'[p].pc = "history"
                  ELSE /\ procs'[p] = NoProc
                       /\ state'.allMessages = <<>>
                       /\ state'.checkpoints = {}]_vars

\* A switchConversation called during a turn: the turn's `cancelled` event
\* was handled, the store is cleared for the new conversation and its
\* history is being loaded.
C20_Witness ==
    /\ procs[MsgSlot].op = "switch" /\ procs[MsgSlot].pc = "history"
    /\ procs[MsgSlot].del = NULL
    /\ \E t \in 1..MaxTurns :
          /\ turns[t].status = "cancelled" /\ t \in observedCancelled
          /\ turns[t].conv # procs[MsgSlot].target
    /\ Switched(state, procs[MsgSlot].target)
    /\ state.allMessages = <<>>

\* C21: the step that handles a `complete` event of the current conversation
\* leaves the turn idle: the message streamingMessageId named has streaming =
\* false, isStreaming and isWaitingForResponse are false, streamingMessageId
\* is null, and the messageCount of the current conversation is the length
\* of the message list.
C21_CompleteReturnsToIdle ==
    [][\A t \in 1..MaxTurns, content \in BOOLEAN :
          (/\ turns[t].conv = state.currentConversationId
           /\ BackendFinish(t, "complete", content)) =>
              /\ \A i \in 1..Len(state'.allMessages) :
                    state'.allMessages[i].id = state.streamingMessageId =>
                        ~state'.allMessages[i].streaming
              /\ ~state'.isStreaming /\ ~state'.isWaitingForResponse
              /\ state'.streamingMessageId = NoId
              /\ ConvOf(state', state'.currentConversationId).messageCount
                    = Len(state'.allMessages)]_vars

\* C22: an invocation of the remove_background handler that registered its
\* task has, once it returned, unregistered it exactly once with a terminal
\* status, whether the subtasks succeeded, failed, were cancelled or an
\* exception was thrown, and never before; an invocation rejected for having
\* no valid input or too many tasks neither registers nor unregisters.
C22_UnregisteredOnce ==
    /\ tool.registered <= 1
    /\ tool.pc # "returned" => tool.unregistered = <<>>
    /\ (tool.pc = "returned" /\ tool.registered = 1)
          => /\ Len(tool.unregistered) = 1
             /\ tool.unregistered[1] \in TaskStatuses
    /\ (Len(tool.tasks) = 0 \/ Len(tool.tasks) > MaxBatch)
          => tool.registered = 0 /\ tool.unregistered = <<>>
    /\ tool.registered = 0 => tool.unregistered = <<>>

\* A batch of two whose subtasks were both cancelled has returned.
C22_Witness ==
    /\ tool.pc = "returned"
    /\ tool.registered = 1
    /\ Len(tool.sub) = MaxBatch
    /\ \A i \in 1..Len(tool.sub) : tool.sub[i].res = "cancelled"

\* The operations that await cancelStream() before they do anything else.
MessageOps == {"retry", "edit", "delete", "deleteSingle"}

\* C23: retryFromMessage, editAndRetry, deleteMessage and deleteSingleMessage
\* called while a turn is active (isStreaming) change nothing in the store and
\* send no request on the call; while the operation waits for cancelStream()
\* the only step it takes is the cancel resolving, and no truncation or
\* deletion is applied before that.
C23_CancelBeforeMutation ==
    [][\A p \in 1..MaxProcs :
          /\ (state.isStreaming /\ procs[p].op = "idle"
                 /\ procs'[p].op \in MessageOps)
                => /\ procs'[p].pc = "cancel"
                   /\ state' = state
                   /\ turns' = turns
          /\ (procs[p].op \in MessageOps /\ procs[p].pc = "cancel")
                => /\ procs'[p] \in {procs[p], [procs[p] EXCEPT !.pc = "acked"]}
                   /\ last'.op \notin {"truncate", "delete", "deleteSingle"}]_vars

\* A deletion was applied by an operation that had first cancelled a turn.
C23_Witness ==
    /\ last.op \in {"truncate", "delete", "deleteSingle"}
    /\ \E t \in 1..MaxTurns : turns[t].status = "cancelled"
    /\ ~state.isStreaming \/ last.op = "truncate"

\* C24: when the deleteMessage request of retryFromMessage fails, the failure
\* is swallowed: the truncated list is kept, the error slot is left as it was,
\* the new streaming placeholder is appended and made the streaming target,
\* and the operation goes on to its retryStream request.
C24_RetryDeleteFailureSwallowed ==
    [][\A p \in 1..MaxProcs :
          RetryDeleteSettled(p, FALSE)
             => /\ Len(state'.allMessages) = Len(state.allMessages) + 1
                /\ SubSeq(state'.allMessages, 1, Len(state.allMessages))
                      = state.allMessages
                /\ state'.checkpoints = state.checkpoints
                /\ state'.error = state.error
                /\ state'.allMessages[Len(state'.allMessages)].streaming
                /\ state'.allMessages[Len(state'.allMessages)].role = "assistant"
                /\ state'.streamingMessageId
                      = state'.allMessages[Len(state'.allMessages)].id
                /\ procs'[p].op = "retry" /\ procs'[p].pc = "dispatch"]_vars

\* A turn retried from message 1 of 2 is running: the list was cut to one
\* message and holds the new placeholder after it.
C24_Witness ==
    /\ \E p \in 1..MaxProcs : procs[p].op = "retry" /\ procs[p].pc = "dispatch"
    /\ Len(state.allMessages) = 2
    /\ state.allMessages[2].streaming
    /\ state.error = NULL

\* C25: when retryFromMessage or editAndRetry gets to send its turn request,
\* none of the per-turn transient refs (tool-call buffer, in-tool-call marker,
\* processedDiffTools, handledDiffIds, handledFilePaths, pendingDiffToolIds,
\* pendingAnnotation) holds anything.
C25_TransientStateReset ==
    [][\A p \in 1..MaxProcs :
          (procs'[p].op \in {"retry", "edit"} /\ procs'[p].pc = "dispatch"
              /\ procs[p].pc # "dispatch")
             => state'.transient = {}]_vars

\* C26: a create, cancel or delete made on the registry from an abort listener
\* while cancelAll runs does not change what cancelAll works on: the loop
\* aborts and notifies exactly the controllers registered when cancelAll
\* started, each once, and a controller registered by the re-entrant create
\* is not dropped from the registry unless it was aborted.
C26_ReentrantCancelAll ==
    (lastCall.op = "cancelAll" /\ lastCall.hook # NoHook) =>
        LET pre == lastCall.pre
            fresh == nextCtrl - 1
        IN /\ lastCall.ret = [i \in 1..Len(pre) |-> pre[i].ctrl]
           /\ lastCall.attempts = [i \in 1..Len(pre) |-> pre[i].key]
           /\ MapCtrls(pre) \subseteq aborted
           /\ (lastCall.hook.op = "create" /\ fresh \notin MapCtrls(controllers))
                 => fresh \in aborted

\* C27: whatever the interleaving of switchConversation calls and the loads
\* they start, the response to a conversation.getMessages or
\* checkpoint.getCheckpoints request made for a conversation that is no
\* longer the current one leaves the message list and the checkpoint list as
\* they are.
C27_StaleLoadIgnored ==
    [][\A p \in 1..MaxProcs :
          /\ \A n \in 0..MaxHist :
                (procs[p].conv # state.currentConversationId
                    /\ HistorySettled(p, TRUE, n, NULL))
                   => state'.allMessages = state.allMessages
          /\ \A cps \in {{}} \cup {{i} : i \in CkptIdx} :
                (procs[p].conv # state.currentConversationId
                    /\ CheckpointsSettled(p, cps))
                   => state'.checkpoints = state.checkpoints]_vars

\* C28: when the backend call of a deleteMessage, a deleteSingleMessage or a
\* retryFromMessage settles after the user has switched to another
\* conversation, what the operation then does to the store leaves the message
\* list and the checkpoints of the conversation now current as they are.
C28_MutationStaysWithConversation ==
    [][\A p \in 1..MaxProcs :
          /\ \A outcome \in Outcomes :
                (procs[p].conv # state.currentConversationId
                    /\ DeleteSettled(p, outcome, NULL))
                   => /\ state'.allMessages = state.allMessages
                      /\ state'.checkpoints = state.checkpoints
          /\ \A ok \in BOOLEAN :
                (procs[p].conv # state.currentConversationId
                    /\ RetryDeleteSettled(p, ok))
                   => /\ state'.allMessages = state.allMessages
                      /\ state'.checkpoints = state.checkpoints]_vars

\* isDeletingConversation(id) is true only while a deleteConversation(id) is
\* in flight, its follow-up switch or create included.
LockOnlyInFlight ==
    \A id \in ConvIds : id \in state.deletingConversationIds => InFlight(id) # {}

\* The step in which the backend request of deleteConversation(id) fails:
\* the conversation stays in the list, the call returns false, the lock is
\* gone, and the error slot holds errorCode(code).
DeleteFailureStep(p, code, errorCode) ==
    DeleteConversationSettled(p, FALSE, code)
       => /\ HasConv(state', procs[p].del)
          /\ state'.conversations = state.conversations
          /\ last'.op = "deleteConversation" /\ last'.arg = "false"
          /\ last'.conv = procs[p].del
          /\ state'.error = errorCode
          /\ procs[p].del \notin state'.deletingConversationIds

\* C29 as stated: deletingConversationIds holds an id only while a
\* deleteConversation(id) is in flight, every exit path removing it, and when
\* the backend delete fails the conversation stays in the list, the call
\* returns false, the error slot holds DELETE_ERROR and the id is not locked.
C29_DeleteLock ==
    /\ []LockOnlyInFlight
    /\ [][\A p \in 1..MaxProcs, code \in ErrCodes :
            DeleteFailureStep(p, code, "DELETE_ERROR")]_vars

\* C29, amended: as above, the error slot holding the code the failure
\* carries, and DELETE_ERROR when it carries none.
C29_DeleteLockWithCode ==
    /\ []LockOnlyInFlight
    /\ [][\A p \in 1..MaxProcs, code \in ErrCodes :
            DeleteFailureStep(p, code, ErrCode(code, "DELETE_ERROR"))]_vars

\* A deleteConversation(c1) whose backend request failed has returned false:
\* c1 is still listed, nothing is locked, the error slot is set.
C29_Witness ==
    /\ last.op = "deleteConversation" /\ last.arg = "false"
    /\ last.conv = "c1"
    /\ HasConv(state, "c1")
    /\ state.error = "DELETE_ERROR"
    /\ state.deletingConversationIds = {}

\* What sendMessage leaves alone when the conversation it asked for could not
\* be created: the conversation list, the message list, the turns of the
\* backend; and the operation is over, isLoading false.
CreateFailureFrame(p) ==
    /\ state'.conversations = state.conversations
    /\ state'.allMessages = state.allMessages
    /\ state'.checkpoints = state.checkpoints
    /\ procs'[p] = NoProc
    /\ turns' = turns /\ backendConvs' = backendConvs
    /\ ~state'.isLoading

\* C30 as stated: when sendMessage has to create the conversation and the
\* creation fails, no conversation is added, currentConversationId stays
\* null, no message is appended, no chatStream request is sent, the three
\* flags end false and the error slot holds SEND_ERROR.
C30_CreateFailure ==
    [][\A p \in 1..MaxProcs :
          CreateSettled(p, FALSE)
             => /\ CreateFailureFrame(p)
                /\ state'.currentConversationId = NULL
                /\ ~state'.isStreaming
                /\ ~state'.isWaitingForResponse
                /\ state'.error = "SEND_ERROR"]_vars

\* C30, amended: the call leaves currentConversationId as it finds it; with
\* isStreaming still true when the creation fails, isStreaming and
\* isWaitingForResponse become false and the error slot holds SEND_ERROR;
\* with isStreaming already false, nothing but isLoading changes.
C30_CreateFailureWhileStreaming ==
    [][\A p \in 1..MaxProcs :
          CreateSettled(p, FALSE)
             => /\ CreateFailureFrame(p)
                /\ state'.currentConversationId = state.currentConversationId
                /\ state.isStreaming =>
                      /\ ~state'.isStreaming
                      /\ ~state'.isWaitingForResponse
                      /\ state'.streamingMessageId = NoId
                      /\ state'.error = "SEND_ERROR"
                /\ ~state.isStreaming =>
                      state' = [state EXCEPT !.isLoading = FALSE]]_vars

\* A first sendMessage has ended on a failed creation: no conversation is
\* current, the lists are empty, the flags are down, SEND_ERROR is recorded.
C30_Witness ==
    /\ state.error = "SEND_ERROR"
    /\ state.currentConversationId = NULL
    /\ state.allMessages = <<>>
    /\ ~state.isLoading /\ ~state.isStreaming /\ ~state.isWaitingForResponse
    /\ nextTurn > 1
    /\ \A p \in 1..MaxProcs : procs[p] = NoProc

\* The handler returned through its report: Promise.all resolved and the task
\* was unregistered as completed.
Reported ==
    /\ tool.pc = "returned"
    /\ tool.unregistered = <<"completed">>

\* C31: every subtask ends in exactly one of success, failed and cancelled,
\* so the three counts add up to the number of tasks; a subtask that stopped
\* because the abort signal was seen aborted, by executeRemoveTask or by the
\* engine, is counted as cancelled and never as failed; hence a handler whose
\* subtasks were all stopped by the abort returns cancelled.
C31_AbortCountsAsCancelled ==
    /\ Reported
          => ResultCount(tool.sub, "success") + ResultCount(tool.sub, "failed")
                + ResultCount(tool.sub, "cancelled") = Len(tool.tasks)
    /\ \A i \in 1..Len(tool.sub) :
          tool.sub[i].byAbort => tool.sub[i].res = "cancelled"
    /\ (Reported /\ \A i \in 1..Len(tool.sub) : tool.sub[i].byAbort)
          => tool.ret = "cancelled"

\* C32: once the abort signal of the tool context is aborted, before the
\* handler starts or while it runs, the task's own signal is aborted, and the
\* subtasks started after that stop at their first abort check: none of them
\* reads, processes or writes an image.
C32_ContextAbortReachesTask ==
    /\ []((tool.pc # "idle" /\ tool.contextAborted) => tool.aborted)
    /\ [][(tool.contextAborted /\ tool.pc = "engine" /\ tool'.pc = "all")
             => \A i \in 1..Len(tool'.sub) : tool'.sub[i].pc = "done"]_vars

\* The calls whose load is in flight: suspended in depManager.load or in
\* pipeline.
Loading == {c \in 1..MaxCalls : engine.calls[c].pc \in {"deps", "pipeline"}}

\* C33: at most one load is in flight; a call that waited on a load in
\* progress finds the segmenter set when initModel returns, or initModel
\* throws the load error; and once the segmenter is set it stays set and no
\* call starts another load.
C33_SingleLoad ==
    /\ [](/\ Cardinality(Loading) <= 1
          /\ \A c \in 1..MaxCalls :
                (engine.calls[c].waited /\ engine.calls[c].init # NULL)
                   => \/ engine.calls[c].init = "returned" /\ engine.calls[c].found
                      \/ engine.calls[c].init = "threw"
                            /\ engine.calls[c].message \in LoadMessages)
    /\ [][engine.segmenter
             => /\ engine'.segmenter
                /\ \A c \in 1..MaxCalls :
                      engine'.calls[c].pc \in {"deps", "pipeline"}
                         => engine.calls[c].pc \in {"deps", "pipeline"}]_vars

====
